---- MODULE Spec2Model ----
(***************************************************************************)
(* A model of the JSON scanner of package pjson (scanner.go) and of the    *)
(* callers that drive it one byte at a time.                               *)
(*                                                                         *)
(* A byte is a one-character string.  A scanner is a record with the       *)
(* fields of the Go struct Scanner; the field step holds the name of the   *)
(* state function that the Go field points to.  Every state function is an *)
(* operator from (scanner, byte) to [scan |-> the scanner after the call,  *)
(* ret |-> the opcode returned].                                           *)
(***************************************************************************)
EXTENDS Integers, Sequences, FiniteSets, TLC

(***************************************************************************)
(* Opcodes (scanner.go, const block of Scan*; iota).                       *)
(***************************************************************************)
ScanContinue == 0
ScanBeginLiteral == 1
ScanBeginObject == 2
ScanObjectKey == 3
ScanObjectValue == 4
ScanEndObject == 5
ScanBeginArray == 6
ScanArrayValue == 7
ScanEndArray == 8
ScanSkipSpace == 9
ScanEnd == 10
ScanError == 11

(***************************************************************************)
(* Parse-stack frames (scanner.go, const block of Parse*; iota).           *)
(***************************************************************************)
ParseObjectKey == 0
ParseObjectValue == 1
ParseArrayValue == 2

(***************************************************************************)
(* The nesting limit.  The source sets 10000; the model runs the same code *)
(* with the limit DepthBound, so that short inputs reach it.  Every        *)
(* statement below is made relative to maxNestingDepth.                    *)
(***************************************************************************)
DepthBound == 3

maxNestingDepth == DepthBound

(***************************************************************************)
(* Errors.  nil stands for Go's nil error; every other error value is a    *)
(* SyntaxError with its message and Offset.                                *)
(***************************************************************************)
nil == [msg |-> "<nil>", Offset |-> 0]

SyntaxError(msg, offset) == [msg |-> msg, Offset |-> offset]

(***************************************************************************)
(* Byte classes used by the state functions.                               *)
(***************************************************************************)
Digits19 == {"1", "2", "3", "4", "5", "6", "7", "8", "9"}

Digits09 == {"0"} \cup Digits19

HexDigits == Digits09 \cup {"a", "b", "c", "d", "e", "f"}
                      \cup {"A", "B", "C", "D", "E", "F"}

\* The bytes below 0x20 that a TLA+ string can hold.
ControlBytes == {"\t", "\n", "\r"}

isSpace(c) == c = " " \/ c = "\t" \/ c = "\r" \/ c = "\n"

isHex(c) == c \in HexDigits

\* strconv.Quote(string(c)) without its double quotes, for an ASCII byte.
QuoteBody(c) ==
    CASE c = "\\" -> "\\\\"
      [] c = "\n" -> "\\n"
      [] c = "\t" -> "\\t"
      [] c = "\r" -> "\\r"
      [] OTHER -> c

quoteChar(c) ==
    IF c = "'" THEN "'\\''"
    ELSE IF c = "\"" THEN "'\"'"
    ELSE "'" \o QuoteBody(c) \o "'"

(***************************************************************************)
(* The scanner's methods and state functions.                              *)
(***************************************************************************)
Out(s, r) == [scan |-> s, ret |-> r]

\* Mutant of error: the error is recorded and the transition is left as it
\* was.
error_KeepsState(s, c, context) ==
    Out([s EXCEPT !.err = SyntaxError("invalid character " \o quoteChar(c)
                                          \o " " \o context, s.bytes)],
        ScanError)

\* Scanner.error: records the error at the current bytes count.
error(s, c, context) ==
    Out([s EXCEPT !.step = "stateError",
                  !.err = SyntaxError("invalid character " \o quoteChar(c)
                                          \o " " \o context, s.bytes)],
        ScanError)

\* Mutant of pushParseState: < in place of <=.
pushParseState_OffByOne(s, c, newParseState, successState) ==
    LET t == [s EXCEPT !.parseState = Append(s.parseState, newParseState)]
    IN  IF Len(t.parseState) < maxNestingDepth
        THEN Out(t, successState)
        ELSE error(t, c, "exceeded max depth")

\* Scanner.pushParseState: the frame is appended before the limit is tested.
pushParseState(s, c, newParseState, successState) ==
    LET t == [s EXCEPT !.parseState = Append(s.parseState, newParseState)]
    IN  IF Len(t.parseState) <= maxNestingDepth
        THEN Out(t, successState)
        ELSE error(t, c, "exceeded max depth")

\* Mutant of popParseState: the top level is taken to end one frame early.
popParseState_EarlyTop(s) ==
    LET n == Len(s.parseState) - 1
        t == [s EXCEPT !.parseState = SubSeq(s.parseState, 1, n)]
    IN  IF n <= 1
        THEN [t EXCEPT !.step = "stateEndTop", !.endTop = TRUE]
        ELSE [t EXCEPT !.step = "stateEndValue"]

popParseState(s) ==
    LET n == Len(s.parseState) - 1
        t == [s EXCEPT !.parseState = SubSeq(s.parseState, 1, n)]
    IN  IF n = 0
        THEN [t EXCEPT !.step = "stateEndTop", !.endTop = TRUE]
        ELSE [t EXCEPT !.step = "stateEndValue"]

\* s.parseState[n-1] = p
SetTop(s, p) == [s EXCEPT !.parseState[Len(s.parseState)] = p]

SetStep(s, f) == [s EXCEPT !.step = f]

\* Mutant of stateEndTop: the byte is reported as the end and no complaint is
\* recorded.
stateEndTop_Silent(s, c) == Out(s, ScanEnd)

\* Mutant of stateEndTop: the complaint is returned at once.
stateEndTop_ErrorNow(s, c) ==
    IF ~isSpace(c)
    THEN error(s, c, "after top-level value")
    ELSE Out(s, ScanEnd)

\* The error is recorded at once and reported by the next call.
stateEndTop(s, c) ==
    IF ~isSpace(c)
    THEN Out(error(s, c, "after top-level value").scan, ScanEnd)
    ELSE Out(s, ScanEnd)

stateEndValue(s, c) ==
    LET n == Len(s.parseState) IN
    IF n = 0
    THEN stateEndTop([s EXCEPT !.step = "stateEndTop", !.endTop = TRUE], c)
    ELSE IF isSpace(c)
    THEN Out(SetStep(s, "stateEndValue"), ScanSkipSpace)
    ELSE LET ps == s.parseState[n] IN
         CASE ps = ParseObjectKey ->
                IF c = ":"
                THEN Out(SetStep(SetTop(s, ParseObjectValue), "stateBeginValue"),
                         ScanObjectKey)
                ELSE error(s, c, "after object key")
           [] ps = ParseObjectValue ->
                IF c = ","
                THEN Out(SetStep(SetTop(s, ParseObjectKey), "stateBeginString"),
                         ScanObjectValue)
                ELSE IF c = "}"
                THEN Out(popParseState(s), ScanEndObject)
                ELSE error(s, c, "after object key:value pair")
           [] ps = ParseArrayValue ->
                IF c = ","
                THEN Out(SetStep(s, "stateBeginValue"), ScanArrayValue)
                ELSE IF c = "]"
                THEN Out(popParseState(s), ScanEndArray)
                ELSE error(s, c, "after array element")
           [] OTHER -> error(s, c, "")

stateBeginValue(s, c) ==
    IF isSpace(c) THEN Out(s, ScanSkipSpace)
    ELSE CASE c = "{" -> pushParseState(SetStep(s, "stateBeginStringOrEmpty"),
                                        c, ParseObjectKey, ScanBeginObject)
           [] c = "[" -> pushParseState(SetStep(s, "stateBeginValueOrEmpty"),
                                        c, ParseArrayValue, ScanBeginArray)
           [] c = "\"" -> Out(SetStep(s, "stateInString"), ScanBeginLiteral)
           [] c = "-" -> Out(SetStep(s, "stateNeg"), ScanBeginLiteral)
           [] c = "0" -> Out(SetStep(s, "state0"), ScanBeginLiteral)
           [] c = "t" -> Out(SetStep(s, "stateT"), ScanBeginLiteral)
           [] c = "f" -> Out(SetStep(s, "stateF"), ScanBeginLiteral)
           [] c = "n" -> Out(SetStep(s, "stateN"), ScanBeginLiteral)
           [] OTHER -> IF c \in Digits19
                       THEN Out(SetStep(s, "state1"), ScanBeginLiteral)
                       ELSE error(s, c, "looking for beginning of value")

stateBeginValueOrEmpty(s, c) ==
    IF isSpace(c) THEN Out(s, ScanSkipSpace)
    ELSE IF c = "]" THEN stateEndValue(s, c)
    ELSE stateBeginValue(s, c)

stateBeginString(s, c) ==
    IF isSpace(c) THEN Out(s, ScanSkipSpace)
    ELSE IF c = "\"" THEN Out(SetStep(s, "stateInString"), ScanBeginLiteral)
    ELSE error(s, c, "looking for beginning of object key string")

stateBeginStringOrEmpty(s, c) ==
    IF isSpace(c) THEN Out(s, ScanSkipSpace)
    ELSE IF c = "}" THEN stateEndValue(SetTop(s, ParseObjectValue), c)
    ELSE stateBeginString(s, c)

stateInString(s, c) ==
    IF c = "\"" THEN Out(SetStep(s, "stateEndValue"), ScanContinue)
    ELSE IF c = "\\" THEN Out(SetStep(s, "stateInStringEsc"), ScanContinue)
    ELSE IF c \in ControlBytes THEN error(s, c, "in string literal")
    ELSE Out(s, ScanContinue)

stateInStringEsc(s, c) ==
    IF c \in {"b", "f", "n", "r", "t", "\\", "/", "\""}
    THEN Out(SetStep(s, "stateInString"), ScanContinue)
    ELSE IF c = "u" THEN Out(SetStep(s, "stateInStringEscU"), ScanContinue)
    ELSE error(s, c, "in string escape code")

\* The four \u digit states differ only in the state that follows.
HexState(s, c, next) ==
    IF isHex(c) THEN Out(SetStep(s, next), ScanContinue)
    ELSE error(s, c, "in \\u hexadecimal character escape")

stateInStringEscU(s, c) == HexState(s, c, "stateInStringEscU1")

stateInStringEscU1(s, c) == HexState(s, c, "stateInStringEscU12")

stateInStringEscU12(s, c) == HexState(s, c, "stateInStringEscU123")

stateInStringEscU123(s, c) == HexState(s, c, "stateInString")

stateNeg(s, c) ==
    IF c = "0" THEN Out(SetStep(s, "state0"), ScanContinue)
    ELSE IF c \in Digits19 THEN Out(SetStep(s, "state1"), ScanContinue)
    ELSE error(s, c, "in numeric literal")

\* Mutant of state0: digits may follow a leading zero.
state0_LeadingZero(s, c) ==
    IF c \in Digits09 THEN Out(SetStep(s, "state0"), ScanContinue)
    ELSE IF c = "." THEN Out(SetStep(s, "stateDot"), ScanContinue)
    ELSE IF c = "e" \/ c = "E" THEN Out(SetStep(s, "stateE"), ScanContinue)
    ELSE stateEndValue(s, c)

state0(s, c) ==
    IF c = "." THEN Out(SetStep(s, "stateDot"), ScanContinue)
    ELSE IF c = "e" \/ c = "E" THEN Out(SetStep(s, "stateE"), ScanContinue)
    ELSE stateEndValue(s, c)

state1(s, c) ==
    IF c \in Digits09 THEN Out(SetStep(s, "state1"), ScanContinue)
    ELSE state0(s, c)

stateDot(s, c) ==
    IF c \in Digits09 THEN Out(SetStep(s, "stateDot0"), ScanContinue)
    ELSE error(s, c, "after decimal point in numeric literal")

\* Mutant of stateDot0: no exponent after a fraction.
stateDot0_NoExponent(s, c) ==
    IF c \in Digits09 THEN Out(s, ScanContinue)
    ELSE stateEndValue(s, c)

stateDot0(s, c) ==
    IF c \in Digits09 THEN Out(s, ScanContinue)
    ELSE IF c = "e" \/ c = "E" THEN Out(SetStep(s, "stateE"), ScanContinue)
    ELSE stateEndValue(s, c)

stateESign(s, c) ==
    IF c \in Digits09 THEN Out(SetStep(s, "stateE0"), ScanContinue)
    ELSE error(s, c, "in exponent of numeric literal")

stateE(s, c) ==
    IF c = "+" \/ c = "-" THEN Out(SetStep(s, "stateESign"), ScanContinue)
    ELSE stateESign(s, c)

stateE0(s, c) ==
    IF c \in Digits09 THEN Out(s, ScanContinue)
    ELSE stateEndValue(s, c)

\* One letter of true, false or null: the expected byte, the state that
\* follows and the error context.
Letter(s, c, want, next, context) ==
    IF c = want THEN Out(SetStep(s, next), ScanContinue)
    ELSE error(s, c, context)

stateT(s, c) == Letter(s, c, "r", "stateTr", "in literal true (expecting 'r')")

stateTr(s, c) == Letter(s, c, "u", "stateTru", "in literal true (expecting 'u')")

stateTru(s, c) ==
    Letter(s, c, "e", "stateEndValue", "in literal true (expecting 'e')")

stateF(s, c) == Letter(s, c, "a", "stateFa", "in literal false (expecting 'a')")

stateFa(s, c) == Letter(s, c, "l", "stateFal", "in literal false (expecting 'l')")

stateFal(s, c) ==
    Letter(s, c, "s", "stateFals", "in literal false (expecting 's')")

stateFals(s, c) ==
    Letter(s, c, "e", "stateEndValue", "in literal false (expecting 'e')")

stateN(s, c) == Letter(s, c, "u", "stateNu", "in literal null (expecting 'u')")

stateNu(s, c) == Letter(s, c, "l", "stateNul", "in literal null (expecting 'l')")

stateNul(s, c) ==
    Letter(s, c, "l", "stateEndValue", "in literal null (expecting 'l')")

stateError(s, c) == Out(s, ScanError)

\* s.step(s, c): the call through the function field.
step(s, c) ==
    CASE s.step = "stateBeginValue" -> stateBeginValue(s, c)
      [] s.step = "stateBeginValueOrEmpty" -> stateBeginValueOrEmpty(s, c)
      [] s.step = "stateBeginString" -> stateBeginString(s, c)
      [] s.step = "stateBeginStringOrEmpty" -> stateBeginStringOrEmpty(s, c)
      [] s.step = "stateEndValue" -> stateEndValue(s, c)
      [] s.step = "stateEndTop" -> stateEndTop(s, c)
      [] s.step = "stateInString" -> stateInString(s, c)
      [] s.step = "stateInStringEsc" -> stateInStringEsc(s, c)
      [] s.step = "stateInStringEscU" -> stateInStringEscU(s, c)
      [] s.step = "stateInStringEscU1" -> stateInStringEscU1(s, c)
      [] s.step = "stateInStringEscU12" -> stateInStringEscU12(s, c)
      [] s.step = "stateInStringEscU123" -> stateInStringEscU123(s, c)
      [] s.step = "stateNeg" -> stateNeg(s, c)
      [] s.step = "state0" -> state0(s, c)
      [] s.step = "state1" -> state1(s, c)
      [] s.step = "stateDot" -> stateDot(s, c)
      [] s.step = "stateDot0" -> stateDot0(s, c)
      [] s.step = "stateE" -> stateE(s, c)
      [] s.step = "stateESign" -> stateESign(s, c)
      [] s.step = "stateE0" -> stateE0(s, c)
      [] s.step = "stateT" -> stateT(s, c)
      [] s.step = "stateTr" -> stateTr(s, c)
      [] s.step = "stateTru" -> stateTru(s, c)
      [] s.step = "stateF" -> stateF(s, c)
      [] s.step = "stateFa" -> stateFa(s, c)
      [] s.step = "stateFal" -> stateFal(s, c)
      [] s.step = "stateFals" -> stateFals(s, c)
      [] s.step = "stateN" -> stateN(s, c)
      [] s.step = "stateNu" -> stateNu(s, c)
      [] s.step = "stateNul" -> stateNul(s, c)
      [] s.step = "stateError" -> stateError(s, c)

\* Mutant of Scanner.Step: the byte is counted after the transition.
ScannerStep_CountAfter(s, c) ==
    LET o == step(s, c) IN Out([o.scan EXCEPT !.bytes = o.scan.bytes + 1], o.ret)

\* Scanner.Step: count the byte, then take the transition.
ScannerStep(s, c) == step([s EXCEPT !.bytes = s.bytes + 1], c)

\* Mutant of Scanner.Reset: bytes is set to zero as well.
ScannerReset_ZeroBytes(s) ==
    [s EXCEPT !.step = "stateBeginValue",
              !.parseState = <<>>,
              !.err = nil,
              !.endTop = FALSE,
              !.bytes = 0]

\* Scanner.Reset: bytes is left alone.
ScannerReset(s) ==
    [s EXCEPT !.step = "stateBeginValue",
              !.parseState = <<>>,
              !.err = nil,
              !.endTop = FALSE]

\* Scanner.EOF: the synthetic space is not counted in bytes.
ScannerEOF(s) ==
    IF s.err # nil THEN Out(s, ScanError)
    ELSE IF s.endTop THEN Out(s, ScanEnd)
    ELSE LET t == step(s, " ").scan IN
         IF t.endTop THEN Out(t, ScanEnd)
         ELSE IF t.err = nil
         THEN Out([t EXCEPT !.err =
                       SyntaxError("unexpected end of JSON input", t.bytes)],
                  ScanError)
         ELSE Out(t, ScanError)

\* Mutant of newScanner: the counter of the instance from the pool is kept.
newScanner_KeepBytes(pooled) == ScannerReset(pooled)

\* newScanner: an instance from the pool with bytes set to zero, then Reset.
newScanner(pooled) == ScannerReset([pooled EXCEPT !.bytes = 0])

\* The zero value &Scanner{} that the pool's New function builds.
ZeroScanner ==
    [step |-> "nil", endTop |-> FALSE, parseState |-> <<>>, err |-> nil,
     bytes |-> 0]


\* checkValid's loop over data[i..]: stop at the first ScanError.
RECURSIVE checkValidFrom(_, _, _)
checkValidFrom(s, data, i) ==
    IF i > Len(data)
    THEN LET e == ScannerEOF(s) IN
         [scan |-> e.scan, err |-> IF e.ret = ScanError THEN e.scan.err ELSE nil]
    ELSE LET o == step([s EXCEPT !.bytes = s.bytes + 1], data[i]) IN
         IF o.ret = ScanError
         THEN [scan |-> o.scan, err |-> o.scan.err]
         ELSE checkValidFrom(o.scan, data, i + 1)

checkValid(data, s) == checkValidFrom(ScannerReset(s), data, 1)

\* Valid, on the instance that the pool hands out.
Valid(pooled, data) == checkValid(data, newScanner(pooled)).err = nil

(***************************************************************************)
(* The JSON grammar (RFC 8259), written as a parser over positions and     *)
(* independent of the scanner.  Every operator takes the text s and a      *)
(* start position i and returns                                            *)
(*   ends: the positions j such that s[i..j-1] is a word of the            *)
(*         nonterminal,                                                    *)
(*   more: whether s[i..Len(s)] is a prefix of a word of the nonterminal   *)
(*         (the text ran out, or ends exactly, inside it).                 *)
(* d is the number of container levels that may still be opened.           *)
(***************************************************************************)
JWhitespace == {" ", "\t", "\n", "\r"}

JEscapes == {"\"", "\\", "/", "b", "f", "n", "r", "t"}

JDigits == {"0", "1", "2", "3", "4", "5", "6", "7", "8", "9"}

JHex == JDigits \cup {"a", "b", "c", "d", "e", "f", "A", "B", "C", "D", "E", "F"}

JFail == [ends |-> {}, more |-> FALSE]

JCut == [ends |-> {}, more |-> TRUE]

\* Positions reachable from i over zero or more bytes of the set S.
JRun(s, i, S) == {j \in i..(Len(s) + 1) : \A k \in i..(j - 1) : s[k] \in S}

JWs(s, i) == JRun(s, i, JWhitespace)

\* One byte c at position i, then the positions after it.
JByte(s, P, C) == {p + 1 : p \in {q \in P : q <= Len(s) /\ s[q] \in C}}

\* The text after the opening quote of a string.
RECURSIVE JStrBody(_, _)
JStrBody(s, p) ==
    IF p > Len(s) THEN JCut
    ELSE IF s[p] = "\"" THEN [ends |-> {p + 1}, more |-> p = Len(s)]
    ELSE IF s[p] = "\\"
    THEN IF p + 1 > Len(s) THEN JCut
         ELSE IF s[p + 1] \in JEscapes THEN JStrBody(s, p + 2)
         ELSE IF s[p + 1] = "u"
         THEN IF \E k \in (p + 2)..(p + 5) : k <= Len(s) /\ s[k] \notin JHex
              THEN JFail
              ELSE IF p + 5 > Len(s) THEN JCut ELSE JStrBody(s, p + 6)
         ELSE JFail
    ELSE IF s[p] \in {"\t", "\n", "\r"} THEN JFail
    ELSE JStrBody(s, p + 1)

JString(s, i) ==
    IF i > Len(s) THEN JCut
    ELSE IF s[i] = "\"" THEN JStrBody(s, i + 1) ELSE JFail

\* One or more digits from each position of P.
JDigits1(s, P) == UNION {JRun(s, p, JDigits) \ {p} : p \in P}

JNumber(s, i) ==
    LET sign == {i} \cup JByte(s, {i}, {"-"})
        int == JByte(s, sign, {"0"})
                 \cup JDigits1(s, {p \in sign : p <= Len(s) /\ s[p] # "0"})
        dot == JByte(s, int, {"."})
        frac == int \cup JDigits1(s, dot)
        e == JByte(s, frac, {"e", "E"})
        esign == e \cup JByte(s, e, {"+", "-"})
        exp == frac \cup JDigits1(s, esign)
    IN  [ends |-> exp,
         more |-> (Len(s) + 1) \in (sign \cup dot \cup esign \cup exp)]

JLiteral(s, i, word) ==
    LET n == Len(word)
        have == Len(s) - i + 1
    IN  IF have >= n
        THEN IF SubSeq(s, i, i + n - 1) = word
             THEN [ends |-> {i + n}, more |-> have = n]
             ELSE JFail
        ELSE [ends |-> {}, more |-> SubSeq(s, i, Len(s)) = SubSeq(word, 1, have)]

RECURSIVE JValue(_, _, _), JElements(_, _, _), JMembers(_, _, _)
JValue(s, i, d) ==
    IF i > Len(s) THEN JCut
    ELSE CASE s[i] = "\"" -> JString(s, i)
           [] s[i] = "t" -> JLiteral(s, i, <<"t", "r", "u", "e">>)
           [] s[i] = "f" -> JLiteral(s, i, <<"f", "a", "l", "s", "e">>)
           [] s[i] = "n" -> JLiteral(s, i, <<"n", "u", "l", "l">>)
           [] s[i] \in JDigits \cup {"-"} -> JNumber(s, i)
           [] s[i] \in {"[", "{"} ->
                IF d = 0 THEN JFail
                ELSE LET close == IF s[i] = "[" THEN "]" ELSE "}"
                         W == JWs(s, i + 1)
                         closed == JByte(s, W, {close})
                         open == {q \in W : q > Len(s) \/ s[q] # close}
                         inner == [q \in open |->
                                     IF s[i] = "[" THEN JElements(s, q, d - 1)
                                     ELSE JMembers(s, q, d - 1)]
                     IN  [ends |-> closed \cup UNION {inner[q].ends : q \in open},
                          more |-> \/ (Len(s) + 1) \in closed
                                   \/ \E q \in open : inner[q].more]
           [] OTHER -> JFail

\* After a value of a container that ends at v: white space, then the closer
\* or a comma and the rest (given as the function rest of positions).
JElements(s, q, d) ==
    LET V == JValue(s, q, d)
        R == UNION {JWs(s, v) : v \in V.ends}
        closed == JByte(s, R, {"]"})
        next == UNION {JWs(s, r) : r \in JByte(s, R, {","})}
        inner == [t \in next |-> JElements(s, t, d)]
    IN  [ends |-> closed \cup UNION {inner[t].ends : t \in next},
         more |-> \/ V.more
                  \/ (Len(s) + 1) \in (R \cup closed)
                  \/ \E t \in next : inner[t].more]

JMembers(s, q, d) ==
    LET K == JString(s, q)
        C == UNION {JWs(s, k) : k \in K.ends}
        A == UNION {JWs(s, a) : a \in JByte(s, C, {":"})}
        vals == [a \in A |-> JValue(s, a, d)]
        R == UNION {JWs(s, v) : v \in UNION {vals[a].ends : a \in A}}
        closed == JByte(s, R, {"}"})
        next == UNION {JWs(s, r) : r \in JByte(s, R, {","})}
        inner == [t \in next |-> JMembers(s, t, d)]
    IN  [ends |-> closed \cup UNION {inner[t].ends : t \in next},
         more |-> \/ K.more
                  \/ (Len(s) + 1) \in (C \cup R \cup closed)
                  \/ \E a \in A : vals[a].more
                  \/ \E t \in next : inner[t].more]

\* s is one JSON value with optional surrounding white space, nested at most
\* d deep.
JDocWithin(s, d) ==
    \E p \in JWs(s, 1) : \E v \in JValue(s, p, d).ends : (Len(s) + 1) \in JWs(s, v)

JDoc(s) == JDocWithin(s, Len(s))

\* s is a prefix of such a text (s itself included).
JPrefixWithin(s, d) ==
    \E p \in JWs(s, 1) :
        LET V == JValue(s, p, d)
        IN  V.more \/ \E v \in V.ends : (Len(s) + 1) \in JWs(s, v)

JPrefix(s) == JPrefixWithin(s, Len(s))


(***************************************************************************)
(* The bounds of the model.                                                *)
(*   MaxLen:      every sequence of at most MaxLen bytes of Alphabet is    *)
(*                fed to a fresh scanner.                                  *)
(*   MaxResetLen: the same after a Reset.                                  *)
(*   MaxResets:   the number of Reset calls between two newScanner calls.  *)
(* Longer inputs are the Seeds, their prefixes, and each of these with one *)
(* byte replaced by a byte of Alphabet.                                    *)
(***************************************************************************)
MaxLen == 3

MaxResetLen == 2

MaxResets == 1

Alphabet ==
    {"{", "}", "[", "]", ":", ",", "\"", "\\", "0", "1", "-", ".", " ", "\n",
     "t"}

Nest(c, n) == [k \in 1..n |-> c]

Seeds ==
    {<<"{", "\"", "a", "\"", ":", "1", "}">>,
     <<"{", "1", ":", "2", "}">>,
     <<"[", "1", ",", "2", "]">>,
     <<"{", "\"", "k", "\"", ":", "[", "t", "r", "u", "e", ",", "n", "u", "l", "l", "]", "}">>,
     <<"f", "a", "l", "s", "e", " ">>,
     <<"\"", "\\", "u", "0", "0", "e", "1", "\"">>,
     <<"\"", "a", "\\", "n", "b", "\"">>,
     <<"-", "1", ".", "5", "e", "+", "2", " ">>,
     <<"1", "E", "-", "2">>,
     <<"[", " ", "\"", "x", "\"", " ", ",", " ", "0", " ", "]", "\n">>,
     <<"{", "\"", "a", "\"", ":", "{", "\"", "b", "\"", ":", "[", "]", "}", "}">>,
     <<"{", "\"", "a", "\"", ":", "1", ",", "\"", "b", "\"", ":", "2", "}">>,
     <<" ", "n", "u", "l", "l", "\t">>,
     Nest("[", maxNestingDepth) \o Nest("]", maxNestingDepth),
     Nest("[", maxNestingDepth + 1) \o Nest("]", maxNestingDepth + 1),
     Nest("[", maxNestingDepth) \o <<"{", "}">> \o Nest("]", maxNestingDepth)}

\* A seed, and the seed with one byte replaced.
Variants(d) == {d} \cup {[d EXCEPT ![k] = c] : k \in 1..Len(d), c \in Alphabet}

Prefixes(w) == {SubSeq(w, 1, n) : n \in 0..Len(w)}

LongInputs == UNION {Prefixes(w) : w \in UNION {Variants(d) : d \in Seeds}}

NearSeed(w) == w \in LongInputs

\* The bytes that continue a seed after n bytes.
SeedBytes(n) == {d[n + 1] : d \in {e \in Seeds : Len(e) > n}}

(***************************************************************************)
(* The state: one scanner and the caller that drives it.                   *)
(*   scan      the Scanner                                                 *)
(*   data      the bytes passed to Step since the last Reset or newScanner *)
(*   sigs      the opcodes that Step returned for them                     *)
(*   op, ret   the last call and the opcode it returned                    *)
(*   valid     the result of the last Valid call                           *)
(*   stepsOnly no call but Step has changed the scanner since the last     *)
(*             Reset or newScanner                                         *)
(*   resets    the number of Reset calls since the last newScanner         *)
(***************************************************************************)
VARIABLES scan, data, sigs, op, ret, valid, stepsOnly, resets

\* The state of the callers of the transcoders and of the Stream, described
\* with them below; the caller of the scanner leaves it alone.
VARIABLES input, cfg, res, strm, outs

vars == <<scan, data, sigs, op, ret, valid, stepsOnly, resets, input, cfg, res,
          strm, outs>>

otherVars == <<input, cfg, res, strm, outs>>

Init ==
    /\ scan = newScanner(ZeroScanner)
    /\ data = <<>>
    /\ sigs = <<>>
    /\ op = "newScanner"
    /\ ret = ScanContinue
    /\ valid = FALSE
    /\ stepsOnly = TRUE
    /\ resets = 0
    /\ input = <<>>
    /\ cfg = <<>>
    /\ res = <<>>
    /\ strm = <<>>
    /\ outs = <<>>

\* The caller takes a scanner from the pool: the instance it held before, in
\* whatever state it left it, is the one the pool hands out.
NewScanner ==
    /\ scan' = newScanner(scan)
    /\ data' = <<>>
    /\ sigs' = <<>>
    /\ op' = "newScanner"
    /\ ret' = ScanContinue
    /\ valid' = FALSE
    /\ stepsOnly' = TRUE
    /\ resets' = 0
    /\ UNCHANGED otherVars

\* A caller makes no Step call after an EOF call that fed its synthetic space.
MayStep(c) ==
    /\ stepsOnly
    /\ IF resets = 0
       THEN \/ Len(data) < MaxLen /\ c \in Alphabet
            \/ NearSeed(Append(data, c))
       ELSE Len(data) < MaxResetLen /\ c \in Alphabet

Step(c) ==
    /\ MayStep(c)
    /\ LET o == ScannerStep(scan, c) IN
        /\ scan' = o.scan
        /\ ret' = o.ret
        /\ sigs' = Append(sigs, o.ret)
    /\ data' = Append(data, c)
    /\ op' = "Step"
    /\ valid' = FALSE
    /\ UNCHANGED <<stepsOnly, resets>>
    /\ UNCHANGED otherVars

EOF ==
    /\ LET o == ScannerEOF(scan) IN
        /\ scan' = o.scan
        /\ ret' = o.ret
    /\ op' = "EOF"
    /\ valid' = FALSE
    /\ stepsOnly' = (stepsOnly /\ scan' = scan)
    /\ UNCHANGED <<data, sigs, resets>>
    /\ UNCHANGED otherVars

Reset ==
    /\ resets < MaxResets
    /\ Len(data) <= MaxLen
    /\ scan' = ScannerReset(scan)
    /\ data' = <<>>
    /\ sigs' = <<>>
    /\ op' = "Reset"
    /\ ret' = ScanContinue
    /\ valid' = FALSE
    /\ stepsOnly' = TRUE
    /\ resets' = resets + 1
    /\ UNCHANGED otherVars

\* Stream.readValue, after Step returned ScanEndObject or ScanEndArray: it
\* calls stateEndValue directly with an invented space.
EndValueProbe ==
    /\ op = "Step"
    /\ ret \in {ScanEndObject, ScanEndArray}
    /\ LET o == stateEndValue(scan, " ") IN
        /\ scan' = o.scan
        /\ ret' = o.ret
    /\ op' = "stateEndValue"
    /\ valid' = FALSE
    /\ stepsOnly' = (stepsOnly /\ scan' = scan)
    /\ UNCHANGED <<data, sigs, resets>>
    /\ UNCHANGED otherVars

\* Valid(data) on the bytes fed so far.  Valid takes its own scanner from the
\* pool: a new one, or one that an earlier user left in any state (the state
\* of scan stands for it).
CallValid ==
    /\ op # "Valid"
    /\ \E pooled \in {ZeroScanner, scan} : valid' = Valid(pooled, data)
    /\ op' = "Valid"
    /\ UNCHANGED <<scan, data, sigs, ret, stepsOnly, resets>>
    /\ UNCHANGED otherVars

Next ==
    \/ NewScanner
    \/ \E c \in Alphabet \cup SeedBytes(Len(data)) : Step(c)
    \/ EOF
    \/ Reset
    \/ EndValueProbe
    \/ CallValid

Spec == Init /\ [][Next]_vars


(***************************************************************************)
(* Helpers of the statements below.                                        *)
(***************************************************************************)
Front(w) == SubSeq(w, 1, Len(w) - 1)

Take(w, n) == SubSeq(w, 1, n)

NoErrorSignal == \A k \in 1..Len(sigs) : sigs[k] # ScanError

ErrorSignalSeen == \E k \in 1..Len(sigs) : sigs[k] = ScanError

\* The statement of C1 and of its amendment, for documents nested at most d
\* deep: no Step returned ScanError and no error is recorded, and EOF
\* returned ScanEnd.
AcceptsDocs(d) ==
    JDocWithin(data, d) =>
        /\ NoErrorSignal
        /\ scan.err = nil
        /\ op = "EOF" => ret = ScanEnd

\* C1 as stated: for every well-formed JSON document D, Reset, Step over every
\* byte of D and EOF never return ScanError, and EOF returns ScanEnd.
C1_AsStated == AcceptsDocs(Len(data))

\* C1, amended: the same for every well-formed JSON document whose containers
\* are nested at most maxNestingDepth deep.
C1_Accepts == AcceptsDocs(maxNestingDepth)

\* A document with a container, a string and a number, fed completely and
\* ended with EOF.
C1_Witness ==
    /\ op = "EOF"
    /\ ret = ScanEnd
    /\ data = <<"{", "\"", "a", "\"", ":", "1", "}">>

\* C2: Valid(data) is false for every byte sequence that is not exactly one
\* JSON value with optional surrounding white space.
C2_ValidRejects == (op = "Valid" /\ ~JDoc(data)) => ~valid

\* Valid was called on an input whose last byte is the one that breaks it.
C2_Witness ==
    /\ op = "Valid"
    /\ ~valid
    /\ Len(data) >= 5
    /\ JPrefix(Front(data))
    /\ ~JPrefix(data)

\* The statement of C3 and of its amendment, where a text is acceptable when
\* it is the beginning of a JSON text nested at most d deep.  On a fresh scanner driven by Step: once
\* a byte has made the input unacceptable an error is recorded, and its
\* Offset is the count of bytes consumed when the first such byte was stepped;
\* the error that EOF records for an input that ends too early carries the
\* input length.
OffsetOfFirstBad(d) ==
    /\ (resets = 0 /\ stepsOnly /\ ~JPrefixWithin(data, d)) =>
          /\ scan.err # nil
          /\ scan.err.Offset \in 1..Len(data)
          /\ ~JPrefixWithin(Take(data, scan.err.Offset), d)
          /\ JPrefixWithin(Take(data, scan.err.Offset - 1), d)
    /\ (resets = 0 /\ ~stepsOnly /\ scan.err # nil) => scan.err.Offset = Len(data)

\* C3 as stated: the Offset is the position of the first byte that violates
\* the grammar.
C3_AsStated == OffsetOfFirstBad(Len(data))

\* C3, amended: the Offset is the position of the first byte that violates the
\* grammar or opens a container nested deeper than maxNestingDepth.
C3_Offset == OffsetOfFirstBad(maxNestingDepth)

\* The example of the claim: {1:2} fails at the byte 1.
C3_Witness ==
    /\ data = <<"{", "1", ":", "2", "}">>
    /\ stepsOnly
    /\ resets = 0
    /\ scan.err = SyntaxError(
           "invalid character '1' looking for beginning of object key string", 2)

\* C4: once a Step call has returned ScanError, every later Step and EOF call
\* returns ScanError and Err() stays the same error, until Reset (or
\* newScanner) is called.
C4_ErrorSticks ==
    [][ErrorSignalSeen =>
          /\ op' \in {"Step", "EOF"} => ret' = ScanError
          /\ op' \notin {"Reset", "newScanner"} => scan'.err = scan.err]_vars

\* Two Step calls returned ScanError, then EOF did.
C4_Witness ==
    /\ op = "EOF"
    /\ ret = ScanError
    /\ Len(sigs) >= 3
    /\ sigs[Len(sigs) - 1] = ScanError
    /\ sigs[Len(sigs)] = ScanError

\* C5 as stated: in every reachable state the parse stack holds at most
\* maxNestingDepth frames.
C5_AsStated == Len(scan.parseState) <= maxNestingDepth

\* C6: maxNestingDepth nested [ produce no error, and one more [ or { makes
\* Step return ScanError with the SyntaxError "invalid character '[' (or '{')
\* exceeded max depth" at the position of that byte.
C6_DepthError ==
    /\ (stepsOnly /\ Len(data) <= maxNestingDepth /\ data = Nest("[", Len(data))) =>
          /\ scan.err = nil
          /\ NoErrorSignal
    /\ (/\ stepsOnly
        /\ op = "Step"
        /\ Len(data) = maxNestingDepth + 1
        /\ Front(data) = Nest("[", maxNestingDepth)
        /\ data[Len(data)] \in {"[", "{"}) =>
          /\ ret = ScanError
          /\ scan.err.Offset = scan.bytes
          /\ resets = 0 => scan.err.Offset = maxNestingDepth + 1
          /\ scan.err.msg = IF data[Len(data)] = "["
                            THEN "invalid character '[' exceeded max depth"
                            ELSE "invalid character '{' exceeded max depth"

C6_Witness ==
    /\ op = "Step"
    /\ data = Nest("[", maxNestingDepth) \o <<"{">>
    /\ ret = ScanError

\* C7: in every reachable state endTop implies that the parse stack is empty.
C7_EndTopEmpty == scan.endTop => scan.parseState = <<>>

\* A nested container was closed and the top-level one after it, and
\* readValue's direct stateEndValue call has run.
C7_Witness ==
    /\ op = "stateEndValue"
    /\ scan.endTop
    /\ ret = ScanEnd
    /\ Len(data) >= 4

\* C8 as stated: after Reset, Step returns ScanEnd for byte N exactly when
\* bytes 1..N-1 form a complete top-level value optionally followed by white
\* space and no error is recorded.
C8_AsStated ==
    [][(op' = "Step" /\ stepsOnly') =>
          (ret' = ScanEnd <=> (scan.err = nil /\ JDoc(data)))]_vars

\* C8, amended: ... and byte N does not continue the number that ends bytes
\* 1..N-1 (a digit, '.', 'e' or 'E' that the grammar allows there returns
\* ScanContinue).
C8_DelayedEnd ==
    [][(op' = "Step" /\ stepsOnly') =>
          (ret' = ScanEnd <=>
              /\ scan.err = nil
              /\ JDoc(data)
              /\ (data'[Len(data')] \in JWhitespace \/ ~JPrefix(data')))]_vars

\* The first byte after a complete container is not white space and
\* returns ScanEnd.
C8_Witness ==
    /\ op = "Step"
    /\ stepsOnly
    /\ ret = ScanEnd
    /\ Len(data) >= 3
    /\ data[Len(data)] \notin JWhitespace
    /\ sigs[Len(sigs) - 1] \in {ScanEndObject, ScanEndArray}

\* C9 as stated: EOF returns ScanError when an error is recorded and ScanEnd
\* when the top-level value has ended, both without a change; otherwise it
\* feeds a space, and either the value has then ended and it returns ScanEnd,
\* or it returns ScanError and the error is "unexpected end of JSON input" at
\* the count of bytes consumed.
C9_AsStated ==
    [][op' = "EOF" =>
          IF scan.err # nil THEN ret' = ScanError /\ scan' = scan
          ELSE IF scan.endTop THEN ret' = ScanEnd /\ scan' = scan
          ELSE \/ scan'.endTop /\ scan'.err = nil /\ ret' = ScanEnd
               \/ /\ ~scan'.endTop
                  /\ ret' = ScanError
                  /\ scan'.err = SyntaxError("unexpected end of JSON input",
                                             scan.bytes)]_vars

\* C10: Reset sets the transition to stateBeginValue, empties the parse stack,
\* clears the error and endTop and leaves the bytes counter alone; only
\* newScanner sets the counter to zero.
C10_ResetFrame ==
    [][/\ op' = "Reset" =>
            /\ scan'.step = "stateBeginValue"
            /\ scan'.parseState = <<>>
            /\ scan'.err = nil
            /\ scan'.endTop = FALSE
            /\ scan'.bytes = scan.bytes
       /\ op' = "newScanner" => scan'.bytes = 0
       /\ (scan.bytes # 0 /\ scan'.bytes = 0) => op' = "newScanner"]_vars

\* Reset was called on a scanner that had consumed bytes.
C10_Witness ==
    /\ op = "Reset"
    /\ scan.bytes = MaxLen
    /\ scan.step = "stateBeginValue"

(***************************************************************************)
(* The transcoders (indent.go and indent_config.go).                       *)
(*                                                                         *)
(* A buffer is a sequence of bytes.  A colour is the escape sequence that  *)
(* selects it; the nil colour and the colour without escape sequence both  *)
(* write nothing and are the empty sequence.  The byte 0x1b, which a       *)
(* string of the model cannot hold, is written "^".                        *)
(***************************************************************************)
ESC == "^"

\* termcolor.Reset
TermReset == <<ESC, "[", "0", "m">>

NoColor == <<>>

Yellow == <<ESC, "[", "3", "3", "m">>

Blue == <<ESC, "[", "3", "4", "m">>

Green == <<ESC, "[", "3", "2", "m">>

Magenta == <<ESC, "[", "3", "5", "m">>

\* Color.Format
ColorFormat(x) == x

\* Color.Reset
ColorReset(x) == IF x # NoColor THEN TermReset ELSE <<>>

\* The zero IndentConfig: every colour is nil.
ZeroIndentConfig ==
    [Null |-> NoColor, False |-> NoColor, True |-> NoColor,
     Keyword |-> NoColor, String |-> NoColor, Numeric |-> NoColor,
     Punctuation |-> NoColor]

DefaultIndentConfig ==
    [Null |-> Yellow, False |-> Yellow, True |-> Yellow,
     Keyword |-> Blue, String |-> Green, Numeric |-> Magenta,
     Punctuation |-> Yellow]

\* writeByte: the byte between the colour's escape sequence and its reset.
writeByte(dst, color, ch) ==
    dst \o ColorFormat(color) \o <<ch>> \o ColorReset(color)

isAllSpaces(indent) == \A k \in 1..Len(indent) : indent[k] = " "

\* n copies of the byte sequence w.
RECURSIVE Repeat(_, _)
Repeat(w, n) == IF n <= 0 THEN <<>> ELSE w \o Repeat(w, n - 1)

\* Mutant of newline: the prefix is left out.
newline_NoPrefix(dst, prefix, indent, depth, allSpaces) ==
    dst \o <<"\n">>
        \o (IF allSpaces
            THEN Repeat(<<" ">>, Len(indent) * depth)
            ELSE Repeat(indent, depth))

\* newline, and newlineBufio which writes the same bytes to a bufio.Writer: a
\* line feed, the prefix, and depth times the indent.  With
\* allSpaces the code writes Len(indent) * depth bytes of its constant of
\* spaces, in slices of at most its length.
newline(dst, prefix, indent, depth, allSpaces) ==
    dst \o <<"\n">> \o prefix
        \o (IF allSpaces
            THEN Repeat(<<" ">>, Len(indent) * depth)
            ELSE Repeat(indent, depth))

\* Scanner.CurrentParseState: the top frame, or -1 on an empty stack.
CurrentParseState(s) ==
    IF Len(s.parseState) >= 1 THEN s.parseState[Len(s.parseState)] ELSE -1

\* Mutant of literalColor: a string in an object has the colour of strings,
\* key or value.
literalColor_ByFirstByte(conf, s, c) ==
    LET ps == CurrentParseState(s) IN
    IF ps \in {ParseObjectKey, ParseObjectValue, ParseArrayValue}
    THEN CASE c = "\"" -> conf.String
           [] c = "n" -> conf.Null
           [] c = "t" -> conf.True
           [] c = "f" -> conf.False
           [] OTHER -> conf.Numeric
    ELSE NoColor

\* The colour of a literal that begins with the byte c, chosen after the
\* scanner took c.
literalColor(conf, s, c) ==
    LET ps == CurrentParseState(s) IN
    IF ps = ParseObjectKey THEN conf.Keyword
    ELSE IF ps \in {ParseObjectValue, ParseArrayValue}
    THEN CASE c = "\"" -> conf.String
           [] c = "n" -> conf.Null
           [] c = "t" -> conf.True
           [] c = "f" -> conf.False
           [] OTHER -> conf.Numeric
    ELSE NoColor

\* Mutant of Truncate: the buffer keeps what was written.
Truncate_Keep(dst, n) == dst

\* bytes.Buffer.Truncate: all but the first n bytes are discarded.
Truncate(dst, n) == SubSeq(dst, 1, n)

(***************************************************************************)
(* Every transcoder returns a record                                       *)
(*   dst     the buffer (or the underlying writer) after the call          *)
(*   written the bytes in the buffer (or given to the buffered sink) when  *)
(*           the loop ended, before a Truncate or a Flush                  *)
(*   err     the error returned                                            *)
(*   scan    the scanner that goes back to the pool                        *)
(***************************************************************************)
Returned(dst, written, err, s) ==
    [dst |-> dst, written |-> written, err |-> err, scan |-> s]

\* The element of a one-element set.  A value that an operator uses more than
\* once is bound as the element of a set, which is evaluated once.
The(S) == CHOOSE x \in S : TRUE

\* The end of a whole-buffer transcoder: EOF, and Truncate on an error.
bufferEnd(w, origLen) ==
    The({IF e.ret = ScanError
         THEN Returned(Truncate(w.dst, origLen), w.dst, e.scan.err, e.scan)
         ELSE Returned(w.dst, w.dst, nil, e.scan) :
         e \in {ScannerEOF(w.scan)}})

(***************************************************************************)
(* The loops.  The record w holds the variables of the function: scan,     *)
(* dst, needIndent, depth and so on, i, the place in the input of the byte *)
(* that the next iteration takes, and stop, which tells that a break left  *)
(* the loop.  One operator makes one iteration, from w and from o, what    *)
(* the scanner made of the byte.                                           *)
(***************************************************************************)

\* Mutant of compactIter: the bytes that the scanner skips are copied.
compactIter_KeepSpace(w, o, src) ==
    IF o.ret > ScanSkipSpace
    THEN IF o.ret = ScanError
         THEN [w EXCEPT !.scan = o.scan, !.stop = TRUE]
         ELSE [w EXCEPT !.scan = o.scan,
                        !.dst = IF w.start < w.i
                                THEN @ \o SubSeq(src, w.start, w.i - 1)
                                ELSE @,
                        !.start = w.i + 1,
                        !.i = @ + 1]
    ELSE [w EXCEPT !.scan = o.scan, !.i = @ + 1]

\* compact with escape = false.  start is the place of the first byte of src
\* not yet copied; the bytes go through scan.step, which does not count them.
compactIter(w, o, src) ==
    IF o.ret >= ScanSkipSpace
    THEN IF o.ret = ScanError
         THEN [w EXCEPT !.scan = o.scan, !.stop = TRUE]
         ELSE [w EXCEPT !.scan = o.scan,
                        !.dst = IF w.start < w.i
                                THEN @ \o SubSeq(src, w.start, w.i - 1)
                                ELSE @,
                        !.start = w.i + 1,
                        !.i = @ + 1]
    ELSE [w EXCEPT !.scan = o.scan, !.i = @ + 1]

RECURSIVE compactLoop(_, _)
compactLoop(w, src) ==
    IF w.i > Len(src) \/ w.stop THEN w
    ELSE The({compactLoop(n, src) :
              n \in {The({compactIter(w, o, src) :
                          o \in {step(w.scan, src[w.i])}})}})

compactEnd(w, src, origLen) ==
    The({IF e.ret = ScanError
         THEN Returned(Truncate(w.dst, origLen), w.dst, e.scan.err, e.scan)
         ELSE IF w.start <= Len(src)
         THEN Returned(w.dst \o SubSeq(src, w.start, Len(src)),
                       w.dst \o SubSeq(src, w.start, Len(src)), nil, e.scan)
         ELSE Returned(w.dst, w.dst, nil, e.scan) :
         e \in {ScannerEOF(w.scan)}})

compact(pooled, dst, src) ==
    The({compactEnd(w, src, Len(dst)) :
         w \in {compactLoop([scan |-> newScanner(pooled), dst |-> dst,
                             start |-> 1, i |-> 1, stop |-> FALSE], src)}})

Compact(pooled, dst, src) == compact(pooled, dst, src)

\* Mutant of punctuation: a byte that is not punctuation is not written.
punctuation_DropOther(w, c, punct, prefix, indent, allSpaces) ==
    CASE c \in {"{", "["} ->
           [w EXCEPT !.needIndent = TRUE, !.dst = writeByte(@, punct, c)]
      [] c = "," ->
           [w EXCEPT !.dst = newline(writeByte(@, punct, c), prefix, indent,
                                     w.depth, allSpaces)]
      [] c = ":" ->
           [w EXCEPT !.dst = Append(writeByte(@, punct, c), " ")]
      [] c \in {"}", "]"} ->
           IF w.needIndent
           THEN [w EXCEPT !.needIndent = FALSE, !.dst = writeByte(@, punct, c)]
           ELSE [w EXCEPT !.depth = @ - 1,
                          !.dst = writeByte(newline(@, prefix, indent,
                                                    w.depth - 1, allSpaces),
                                            punct, c)]
      [] OTHER -> w

\* The switch on the byte c that ends an iteration of Indent: spacing around
\* punctuation, in the colour punct.
punctuation(w, c, punct, prefix, indent, allSpaces) ==
    CASE c \in {"{", "["} ->
           [w EXCEPT !.needIndent = TRUE, !.dst = writeByte(@, punct, c)]
      [] c = "," ->
           [w EXCEPT !.dst = newline(writeByte(@, punct, c), prefix, indent,
                                     w.depth, allSpaces)]
      [] c = ":" ->
           [w EXCEPT !.dst = Append(writeByte(@, punct, c), " ")]
      [] c \in {"}", "]"} ->
           IF w.needIndent
           THEN [w EXCEPT !.needIndent = FALSE, !.dst = writeByte(@, punct, c)]
           ELSE [w EXCEPT !.depth = @ - 1,
                          !.dst = writeByte(newline(@, prefix, indent,
                                                    w.depth - 1, allSpaces),
                                            punct, c)]
      [] OTHER -> [w EXCEPT !.dst = Append(@, c)]

\* Mutant of delayedIndent: the indent is written and the depth is left as
\* it was.
delayedIndent_NoDepth(w, v, prefix, indent, allSpaces) ==
    IF w.needIndent /\ v # ScanEndObject /\ v # ScanEndArray
    THEN [w EXCEPT !.needIndent = FALSE,
                   !.dst = newline(@, prefix, indent, w.depth + 1, allSpaces)]
    ELSE w

\* Mutant of delayedIndent: the indent is written before a closing bracket
\* as well.
delayedIndent_Always(w, v, prefix, indent, allSpaces) ==
    IF w.needIndent
    THEN [w EXCEPT !.needIndent = FALSE,
                   !.depth = @ + 1,
                   !.dst = newline(@, prefix, indent, w.depth + 1, allSpaces)]
    ELSE w

\* The delayed indent after an opening bracket.
delayedIndent(w, v, prefix, indent, allSpaces) ==
    IF w.needIndent /\ v # ScanEndObject /\ v # ScanEndArray
    THEN [w EXCEPT !.needIndent = FALSE,
                   !.depth = @ + 1,
                   !.dst = newline(@, prefix, indent, w.depth + 1, allSpaces)]
    ELSE w

\* Indent: bytes of opcode ScanContinue are copied, the others go through the
\* switch.
IndentIter(w, o, c, prefix, indent) ==
    IF o.ret = ScanSkipSpace THEN [w EXCEPT !.scan = o.scan, !.i = @ + 1]
    ELSE IF o.ret = ScanError THEN [w EXCEPT !.scan = o.scan, !.stop = TRUE]
    ELSE The({IF o.ret = ScanContinue
              THEN [w2 EXCEPT !.dst = Append(@, c)]
              ELSE punctuation(w2, c, NoColor, prefix, indent, FALSE) :
              w2 \in {delayedIndent([w EXCEPT !.scan = o.scan, !.i = @ + 1],
                                    o.ret, prefix, indent, FALSE)}})

RECURSIVE IndentLoop(_, _, _, _)
IndentLoop(w, src, prefix, indent) ==
    IF w.i > Len(src) \/ w.stop THEN w
    ELSE The({IndentLoop(n, src, prefix, indent) :
              n \in {The({IndentIter(w, o, src[w.i], prefix, indent) :
                          o \in {step([w.scan EXCEPT !.bytes = @ + 1],
                                      src[w.i])}})}})

Indent(pooled, dst, src, prefix, indent) ==
    The({bufferEnd(w, Len(dst)) :
         w \in {IndentLoop([scan |-> newScanner(pooled), dst |-> dst,
                            needIndent |-> FALSE, depth |-> 0, i |-> 1,
                            stop |-> FALSE],
                           src, prefix, indent)}})

\* The loop `for i++; i < len(src); i++` of IndentConfig.Indent and
\* IndentConfig.Compact over the bytes that continue a literal.  i is the
\* place of the next byte, c and v are the byte and the opcode of the
\* iteration before.  It ends at the first byte whose opcode is not
\* ScanContinue, or past the end of src with c and v left as they were.
RECURSIVE literalEnd(_, _, _, _, _)
literalEnd(s, src, i, c, v) ==
    IF i > Len(src) THEN [scan |-> s, i |-> i, c |-> c, v |-> v]
    ELSE The({IF o.ret # ScanContinue
              THEN [scan |-> o.scan, i |-> i, c |-> src[i], v |-> o.ret]
              ELSE literalEnd(o.scan, src, i + 1, src[i], o.ret) :
              o \in {ScannerStep(s, src[i])}})

\* The literal that begins at w.i, written after the escape sequence of its
\* colour, with l what the loop over its bytes returned.
literalWritten(w, l, src, clr) ==
    [w EXCEPT !.scan = l.scan,
              !.i = l.i + 1,
              !.dst = @ \o ColorFormat(clr) \o SubSeq(src, w.i, l.i - 1)]

\* The escape sequence that closes the colour of a literal.
literalClosed(w, clr) == [w EXCEPT !.dst = @ \o ColorReset(clr)]

\* IndentConfig.Indent: one iteration.  After a literal the switch takes the
\* byte c that the loop over the literal left.
ConfigIndentIter(w, o, src, conf, prefix, indent) ==
    IF o.ret = ScanSkipSpace THEN [w EXCEPT !.scan = o.scan, !.i = @ + 1]
    ELSE IF o.ret = ScanError THEN [w EXCEPT !.scan = o.scan, !.stop = TRUE]
    ELSE The({
        IF o.ret = ScanBeginLiteral
        THEN The({
            The({IF l.v = ScanSkipSpace THEN w3
                 ELSE punctuation(w3, l.c, conf.Punctuation, prefix, indent,
                                  isAllSpaces(indent)) :
                 w3 \in {literalClosed(literalWritten(w2, l, src, clr), clr)}}) :
            l \in {literalEnd(w2.scan, src, w.i + 1, src[w.i], o.ret)},
            clr \in {literalColor(conf, w2.scan, src[w.i])}})
        ELSE punctuation([w2 EXCEPT !.i = @ + 1], src[w.i], conf.Punctuation,
                         prefix, indent, isAllSpaces(indent)) :
        w2 \in {delayedIndent([w EXCEPT !.scan = o.scan], o.ret, prefix, indent,
                              isAllSpaces(indent))}})

RECURSIVE ConfigIndentLoop(_, _, _, _, _)
ConfigIndentLoop(w, src, conf, prefix, indent) ==
    IF w.i > Len(src) \/ w.stop THEN w
    ELSE The({ConfigIndentLoop(n, src, conf, prefix, indent) :
              n \in {The({ConfigIndentIter(w, o, src, conf, prefix, indent) :
                          o \in {ScannerStep(w.scan, src[w.i])}})}})

IndentConfigIndent(pooled, conf, dst, src, prefix, indent) ==
    The({bufferEnd(w, Len(dst)) :
         w \in {ConfigIndentLoop([scan |-> newScanner(pooled), dst |-> dst,
                                  needIndent |-> FALSE, depth |-> 0, i |-> 1,
                                  stop |-> FALSE],
                                 src, conf, prefix, indent)}})

\* The switch on the byte c that ends an iteration of IndentConfig.Compact.
colorize(w, c, punct) ==
    IF c \in {"{", "[", ",", ":", "}", "]"}
    THEN [w EXCEPT !.dst = writeByte(@, punct, c)]
    ELSE [w EXCEPT !.dst = Append(@, c)]

\* IndentConfig.Compact: one iteration.
ConfigCompactIter(w, o, src, conf) ==
    IF o.ret = ScanSkipSpace THEN [w EXCEPT !.scan = o.scan, !.i = @ + 1]
    ELSE IF o.ret = ScanError THEN [w EXCEPT !.scan = o.scan, !.stop = TRUE]
    ELSE IF o.ret = ScanBeginLiteral
    THEN The({
        The({IF l.v = ScanSkipSpace THEN w3
             ELSE colorize(w3, l.c, conf.Punctuation) :
             w3 \in {literalClosed(
                         literalWritten([w EXCEPT !.scan = o.scan], l, src, clr),
                         clr)}}) :
        l \in {literalEnd(o.scan, src, w.i + 1, src[w.i], o.ret)},
        clr \in {literalColor(conf, o.scan, src[w.i])}})
    ELSE colorize([w EXCEPT !.scan = o.scan, !.i = @ + 1], src[w.i],
                  conf.Punctuation)

RECURSIVE ConfigCompactLoop(_, _, _)
ConfigCompactLoop(w, src, conf) ==
    IF w.i > Len(src) \/ w.stop THEN w
    ELSE The({ConfigCompactLoop(n, src, conf) :
              n \in {The({ConfigCompactIter(w, o, src, conf) :
                          o \in {ScannerStep(w.scan, src[w.i])}})}})

IndentConfigCompact(pooled, conf, dst, src) ==
    The({bufferEnd(w, Len(dst)) :
         w \in {ConfigCompactLoop([scan |-> newScanner(pooled), dst |-> dst,
                                   i |-> 1, stop |-> FALSE],
                                  src, conf)}})

(***************************************************************************)
(* The streaming transcoders.  A reader is a record [data, end]: it hands  *)
(* out the bytes of data and then fails with the error end, io.EOF or      *)
(* another error.  The sink is a bufio.Writer on an underlying writer that *)
(* holds wr; the buffer of the bufio.Writer is larger than the output of   *)
(* every call of the model, so that the underlying writer receives bytes   *)
(* at Flush and only then.  wok tells whether the underlying writer        *)
(* accepts them; a writer that fails accepts none.                         *)
(***************************************************************************)
EOFError == [msg |-> "EOF", Offset |-> 0]

ErrUnexpectedEOF == [msg |-> "unexpected EOF", Offset |-> 0]

ReadError == [msg |-> "read error", Offset |-> 0]

WriteError == [msg |-> "write error", Offset |-> 0]

\* InnerLoop: the bytes that continue a literal, taken from the reader's
\* buffer with Peek and Discard.  The byte that ends the literal is
\* discarded from the reader as well; err is the error of a Peek that found
\* the reader at its end.
RECURSIVE InnerLoop(_, _, _, _, _)
InnerLoop(s, rd, i, c, v) ==
    IF i > Len(rd.data)
    THEN [scan |-> s, i |-> i, c |-> c, v |-> v, err |-> rd.end]
    ELSE The({IF o.ret # ScanContinue
              THEN [scan |-> o.scan, i |-> i, c |-> rd.data[i], v |-> o.ret,
                    err |-> nil]
              ELSE InnerLoop(o.scan, rd, i + 1, rd.data[i], o.ret) :
              o \in {ScannerStep(s, rd.data[i])}})

\* IndentStream: one iteration, on the byte rd.data[w.i] that ReadByte
\* returned.  When the scanner tells the end of a top-level value it is
\* reset, and the byte that told it is dropped.  A Peek that fails leaves
\* the loop before the colour of the literal is closed.
IndentStreamIter(w, o, rd, conf, prefix, indent) ==
    IF o.ret = ScanSkipSpace THEN [w EXCEPT !.scan = o.scan, !.i = @ + 1]
    ELSE IF o.ret = ScanError THEN [w EXCEPT !.scan = o.scan, !.stop = TRUE]
    ELSE IF o.ret = ScanEnd /\ o.scan.endTop
    THEN [w EXCEPT !.scan = ScannerReset(o.scan),
                   !.resetBytes = o.scan.bytes,
                   !.dst = Append(@, "\n"),
                   !.i = @ + 1]
    ELSE The({
        IF o.ret = ScanBeginLiteral
        THEN The({
            The({IF l.err # nil THEN [w3 EXCEPT !.err = l.err, !.stop = TRUE]
                 ELSE IF l.v = ScanSkipSpace THEN literalClosed(w3, clr)
                 ELSE punctuation(literalClosed(w3, clr), l.c, conf.Punctuation,
                                  prefix, indent, isAllSpaces(indent)) :
                 w3 \in {literalWritten(w2, l, rd.data, clr)}}) :
            l \in {InnerLoop(w2.scan, rd, w.i + 1, rd.data[w.i], o.ret)},
            clr \in {literalColor(conf, w2.scan, rd.data[w.i])}})
        ELSE punctuation([w2 EXCEPT !.i = @ + 1], rd.data[w.i], conf.Punctuation,
                         prefix, indent, isAllSpaces(indent)) :
        w2 \in {delayedIndent([w EXCEPT !.scan = o.scan], o.ret, prefix, indent,
                              isAllSpaces(indent))}})

\* IndentStream's loop: ReadByte fails at the end of the reader.
RECURSIVE IndentStreamLoop(_, _, _, _, _)
IndentStreamLoop(w, rd, conf, prefix, indent) ==
    IF w.stop THEN w
    ELSE IF w.i > Len(rd.data) THEN [w EXCEPT !.err = rd.end]
    ELSE The({IndentStreamLoop(n, rd, conf, prefix, indent) :
              n \in {The({IndentStreamIter(w, o, rd, conf, prefix, indent) :
                          o \in {ScannerStep(w.scan, rd.data[w.i])}})}})

\* bufio.Writer.Flush: the underlying writer after it.
Flush(wr, buffered, wok) == IF wok THEN wr \o buffered ELSE wr

\* IndentStream after its loop: Flush, then the read error, the scanner's
\* error unless the scanner was just reset, the error of Flush.
IndentStreamEnd(w, wr, wok) ==
    IF w.err # nil /\ w.err # EOFError
    THEN Returned(Flush(wr, w.dst, wok), w.dst, w.err, w.scan)
    ELSE The({IF /\ e.ret = ScanError
                 /\ (w.resetBytes = 0 \/ e.scan.bytes # w.resetBytes)
              THEN Returned(Flush(wr, w.dst, wok), w.dst, e.scan.err, e.scan)
              ELSE Returned(Flush(wr, w.dst, wok), w.dst,
                            IF wok THEN nil ELSE WriteError, e.scan) :
              e \in {ScannerEOF(w.scan)}})

IndentStream(pooled, conf, wr, wok, rd, prefix, indent) ==
    The({IndentStreamEnd(w, wr, wok) :
         w \in {IndentStreamLoop([scan |-> newScanner(pooled), dst |-> <<>>,
                                  needIndent |-> FALSE, depth |-> 0,
                                  resetBytes |-> 0, err |-> nil, i |-> 1,
                                  stop |-> FALSE],
                                 rd, conf, prefix, indent)}})

\* CompactStream: one iteration.
CompactStreamIter(w, o, rd, conf) ==
    IF o.ret = ScanSkipSpace THEN [w EXCEPT !.scan = o.scan, !.i = @ + 1]
    ELSE IF o.ret = ScanError THEN [w EXCEPT !.scan = o.scan, !.stop = TRUE]
    ELSE IF o.ret = ScanBeginLiteral
    THEN The({
        The({IF l.err # nil THEN [w3 EXCEPT !.err = l.err, !.stop = TRUE]
             ELSE IF l.v = ScanSkipSpace THEN literalClosed(w3, clr)
             ELSE colorize(literalClosed(w3, clr), l.c, conf.Punctuation) :
             w3 \in {literalWritten([w EXCEPT !.scan = o.scan], l, rd.data,
                                    clr)}}) :
        l \in {InnerLoop(o.scan, rd, w.i + 1, rd.data[w.i], o.ret)},
        clr \in {literalColor(conf, o.scan, rd.data[w.i])}})
    ELSE colorize([w EXCEPT !.scan = o.scan, !.i = @ + 1], rd.data[w.i],
                  conf.Punctuation)

RECURSIVE CompactStreamLoop(_, _, _)
CompactStreamLoop(w, rd, conf) ==
    IF w.stop THEN w
    ELSE IF w.i > Len(rd.data) THEN [w EXCEPT !.err = rd.end]
    ELSE The({CompactStreamLoop(n, rd, conf) :
              n \in {The({CompactStreamIter(w, o, rd, conf) :
                          o \in {ScannerStep(w.scan, rd.data[w.i])}})}})

\* CompactStream after its loop: the read error and the scanner's error are
\* returned before Flush is called, and the buffered bytes are dropped when
\* the bufio.Writer goes back to its pool.
CompactStreamEnd(w, wr, wok) ==
    IF w.err # nil /\ w.err # EOFError
    THEN Returned(wr, w.dst, w.err, w.scan)
    ELSE The({IF e.ret = ScanError
              THEN Returned(wr, w.dst, e.scan.err, e.scan)
              ELSE Returned(Flush(wr, w.dst, wok), w.dst,
                            IF wok THEN nil ELSE WriteError, e.scan) :
              e \in {ScannerEOF(w.scan)}})

CompactStream(pooled, conf, wr, wok, rd) ==
    The({CompactStreamEnd(w, wr, wok) :
         w \in {CompactStreamLoop([scan |-> newScanner(pooled), dst |-> <<>>,
                                   err |-> nil, i |-> 1, stop |-> FALSE],
                                  rd, conf)}})

(***************************************************************************)
(* The callers of the transcoders.                                         *)
(*   input the input: the slice given to a whole-buffer transcoder, the    *)
(*         bytes of the reader given to a streaming one                    *)
(*   cfg   the IndentConfig conf, the prefix and the indent, and dst, the  *)
(*         content of the buffer (or of the underlying writer) before a    *)
(*         call                                                            *)
(*   res   the last call and what it returned (nn is the number of bytes   *)
(*         that Stream.Indent reports)                                     *)
(*   scan  the scanner in the pool                                         *)
(* MaxSrcLen: every sequence of at most MaxSrcLen bytes of SrcAlphabet is  *)
(* an input; longer inputs are the SrcSeeds.                               *)
(***************************************************************************)
MaxSrcLen == 3

SrcAlphabet == {"[", "]", "{", "}", "1", ",", " ", "\""}

RECURSIVE Words(_, _)
Words(A, n) ==
    IF n = 0 THEN {<<>>}
    ELSE LET W == Words(A, n - 1) IN
         W \cup {Append(w, c) : w \in {x \in W : Len(x) = n - 1}, c \in A}

SrcSeeds ==
    {<<"{", "\"", "a", "\"", ":", "1", "}">>,
     <<"{", "}", "{", "}">>,
     <<"[", "1", ",", "2", ",", "3", "]", "[", "4", ",", "5", ",", "6", "]">>,
     <<"[", "1", ",", "2", "]", " ", "{", "\"", "a", "\"", ":", "t", "r", "u",
       "e", "}", "\n">>,
     <<"[", "1", "]", "\n", "\n">>,
     <<"{", "\"", "k", "\"", ":", "[", "n", "u", "l", "l", ",", "\"", "x", "\"",
       "]", "}">>,
     <<" ", "[", " ", "1", " ", ",", " ", "f", "a", "l", "s", "e", " ", "]",
       "\n">>,
     <<"t", "r", "u", "e">>,
     <<"\"", "a", "\"", " ", "\"", "b", "\"">>,
     <<"[", "1", ",", "2", ",", "x">>,
     <<"{", "\"", "a", "\"", ":", "[", "1", ",">>,
     <<"[", "[", "1", "]", ",", "{", "}", "]">>,
     <<"[", "[", " ", "]", "]">>}

Sources == Words(SrcAlphabet, MaxSrcLen) \cup SrcSeeds

Configs ==
    {[conf |-> ZeroIndentConfig, prefix |-> <<>>, indent |-> <<" ", " ">>,
      dst |-> <<>>],
     [conf |-> DefaultIndentConfig, prefix |-> <<">">>, indent |-> <<"\t">>,
      dst |-> <<"#">>],
     [conf |-> ZeroIndentConfig, prefix |-> <<>>, indent |-> <<>>,
      dst |-> <<"#">>]}

BufferOps == {"Indent", "Compact", "IndentConfig.Indent", "IndentConfig.Compact"}

StreamOps == {"IndentConfig.IndentStream", "IndentConfig.CompactStream"}

\* What a call left: the operation, the reader's last error and the state of
\* the underlying writer it was given, and the record the transcoder
\* returned.
Called(name, end, wok, r) ==
    [op |-> name, end |-> end, wok |-> wok, dst |-> r.dst,
     written |-> r.written, nn |-> 0, err |-> r.err, want |-> <<>>]

NoCall ==
    [op |-> "none", end |-> nil, wok |-> TRUE, dst |-> <<>>, written |-> <<>>,
     nn |-> 0, err |-> nil, want |-> <<>>]

callerVars == <<data, sigs, op, ret, valid, stepsOnly, resets>>

InitTranscode ==
    /\ scan = ZeroScanner
    /\ data = <<>>
    /\ sigs = <<>>
    /\ op = "none"
    /\ ret = ScanContinue
    /\ valid = FALSE
    /\ stepsOnly = TRUE
    /\ resets = 0
    /\ input \in Sources
    /\ cfg \in Configs
    /\ res = NoCall
    /\ strm = <<>>
    /\ outs = <<>>

CallIndent ==
    /\ \E r \in {Indent(scan, cfg.dst, input, cfg.prefix, cfg.indent)} :
        /\ res' = Called("Indent", nil, TRUE, r)
        /\ scan' = r.scan
    /\ UNCHANGED <<callerVars, input, cfg, strm, outs>>

CallCompact ==
    /\ \E r \in {Compact(scan, cfg.dst, input)} :
        /\ res' = Called("Compact", nil, TRUE, r)
        /\ scan' = r.scan
    /\ UNCHANGED <<callerVars, input, cfg, strm, outs>>

CallIndentConfigIndent ==
    /\ \E r \in {IndentConfigIndent(scan, cfg.conf, cfg.dst, input, cfg.prefix,
                                   cfg.indent)} :
        /\ res' = Called("IndentConfig.Indent", nil, TRUE, r)
        /\ scan' = r.scan
    /\ UNCHANGED <<callerVars, input, cfg, strm, outs>>

CallIndentConfigCompact ==
    /\ \E r \in {IndentConfigCompact(scan, cfg.conf, cfg.dst, input)} :
        /\ res' = Called("IndentConfig.Compact", nil, TRUE, r)
        /\ scan' = r.scan
    /\ UNCHANGED <<callerVars, input, cfg, strm, outs>>

\* IndentStream on a reader that hands out input and then fails with end, and
\* on a writer that works or fails.
CallIndentStream ==
    /\ \E end \in {EOFError, ReadError}, wok \in BOOLEAN :
         \E r \in {IndentStream(scan, cfg.conf, cfg.dst, wok,
                                [data |-> input, end |-> end], cfg.prefix,
                                cfg.indent)} :
            /\ res' = Called("IndentConfig.IndentStream", end, wok, r)
            /\ scan' = r.scan
    /\ UNCHANGED <<callerVars, input, cfg, strm, outs>>

CallCompactStream ==
    /\ \E end \in {EOFError, ReadError}, wok \in BOOLEAN :
         \E r \in {CompactStream(scan, cfg.conf, cfg.dst, wok,
                                 [data |-> input, end |-> end])} :
            /\ res' = Called("IndentConfig.CompactStream", end, wok, r)
            /\ scan' = r.scan
    /\ UNCHANGED <<callerVars, input, cfg, strm, outs>>

\* testIndentConfigIndentStream: IndentConfig.Indent into an empty buffer,
\* whose content is kept as want, then IndentStream on a bytes.Reader of the
\* same data into the buffer after Reset.  The test stops at the first error.
TestIndentStream ==
    /\ \E a \in {IndentConfigIndent(scan, cfg.conf, <<>>, input, cfg.prefix,
                                      cfg.indent)} :
         IF a.err # nil
         THEN /\ res' = [Called("testIndentConfigIndentStream", EOFError, TRUE,
                                a) EXCEPT !.want = a.dst]
              /\ scan' = a.scan
         ELSE \E b \in {IndentStream(a.scan, cfg.conf, <<>>, TRUE,
                                     [data |-> input, end |-> EOFError],
                                     cfg.prefix, cfg.indent)} :
                /\ res' = [Called("testIndentConfigIndentStream", EOFError,
                                  TRUE, b) EXCEPT !.want = a.dst]
                /\ scan' = b.scan
    /\ UNCHANGED <<callerVars, input, cfg, strm, outs>>

NextTranscode ==
    \/ CallIndent
    \/ CallCompact
    \/ CallIndentConfigIndent
    \/ CallIndentConfigCompact
    \/ CallIndentStream
    \/ CallCompactStream
    \/ TestIndentStream

SpecTranscode == InitTranscode /\ [][NextTranscode]_vars

(***************************************************************************)
(* Helpers of the statements about the transcoders.                        *)
(***************************************************************************)
MaxOf(S) == CHOOSE x \in S : \A y \in S : y <= x

\* The top-level values of s from place i on, each nested at most d deep,
\* separated by white space or by nothing: ok tells that s holds nothing
\* else, spans gives the first and the last place of every value.  A value
\* ends as late as it can.
RECURSIVE JValuesFrom(_, _, _)
JValuesFrom(s, i, d) ==
    LET p == MaxOf(JWs(s, i))
        E == JValue(s, p, d).ends
    IN  IF p > Len(s) THEN [ok |-> TRUE, spans |-> <<>>]
        ELSE IF E = {} THEN [ok |-> FALSE, spans |-> <<>>]
        ELSE LET rest == JValuesFrom(s, MaxOf(E), d)
             IN  [ok |-> rest.ok, spans |-> <<<<p, MaxOf(E) - 1>>>> \o rest.spans]

JValues(s) == JValuesFrom(s, 1, maxNestingDepth)

\* The bytes of s from place i on without the white space outside strings.
\* str tells that place i is inside a string, esc that it follows a
\* backslash there.
RECURSIVE SignificantFrom(_, _, _, _)
SignificantFrom(s, i, str, esc) ==
    IF i > Len(s) THEN <<>>
    ELSE IF str
    THEN <<s[i]>> \o SignificantFrom(s, i + 1, esc \/ s[i] # "\"",
                                     ~esc /\ s[i] = "\\")
    ELSE IF s[i] \in JWhitespace THEN SignificantFrom(s, i + 1, FALSE, FALSE)
    ELSE <<s[i]>> \o SignificantFrom(s, i + 1, s[i] = "\"", FALSE)

Significant(s) == SignificantFrom(s, 1, FALSE, FALSE)

IsPrefixOf(p, w) == Len(p) <= Len(w) /\ SubSeq(w, 1, Len(p)) = p

(***************************************************************************)
(* C11.  A whole-buffer operation (Indent, Compact, IndentConfig.Indent,   *)
(* IndentConfig.Compact) never modifies the bytes that were in dst before  *)
(* the call, neither while it writes nor in what it leaves, and when it    *)
(* returns an error dst is byte for byte what it was before the call.      *)
(***************************************************************************)
C11_RollBack ==
    res.op \in BufferOps =>
        /\ IsPrefixOf(cfg.dst, res.written)
        /\ IsPrefixOf(cfg.dst, res.dst)
        /\ (res.err # nil => res.dst = cfg.dst)

\* A call that had written bytes after the ones dst held when it met the
\* error.
C11_Witness ==
    /\ res.op \in BufferOps
    /\ res.err # nil
    /\ cfg.dst # <<>>
    /\ Len(res.written) > Len(cfg.dst)
    /\ res.dst = cfg.dst

(***************************************************************************)
(* C12, as stated.  When IndentStream or CompactStream returns an error of *)
(* the scanner or of the reader, the underlying writer (one that accepts   *)
(* what it is given) holds every byte that the call wrote to its buffered  *)
(* sink.                                                                   *)
(***************************************************************************)
C12_AsStated ==
    (res.op \in StreamOps /\ res.wok /\ res.err # nil) =>
        res.dst = cfg.dst \o res.written

(***************************************************************************)
(* C13, as stated.  For a valid document, nested no deeper than the        *)
(* scanner allows, IndentConfig.Indent and IndentStream return no error    *)
(* and write the same bytes.                                               *)
(***************************************************************************)
C13_AsStated ==
    (res.op = "testIndentConfigIndentStream"
        /\ JDocWithin(input, maxNestingDepth)) =>
        /\ res.err = nil
        /\ res.dst = res.want

(***************************************************************************)
(* C14, as stated.  An IndentStream call that returns no error has lost no *)
(* input: without colours and without prefix, what it wrote and its input  *)
(* hold the same bytes outside white space.                                *)
(***************************************************************************)
C14_AsStated ==
    (res.op = "IndentConfig.IndentStream"
        /\ res.err = nil
        /\ cfg.conf = ZeroIndentConfig
        /\ cfg.prefix = <<>>) =>
        Significant(res.written) = Significant(input)

(***************************************************************************)
(* C15, as stated.  IndentStream returns no error on a stream of two or    *)
(* more top-level values separated by white space or by nothing.           *)
(***************************************************************************)
C15_AsStated ==
    (res.op = "IndentConfig.IndentStream"
        /\ res.end = EOFError
        /\ res.wok
        /\ JValues(input).ok
        /\ Len(JValues(input).spans) >= 2) =>
        res.err = nil

(***************************************************************************)
(* C16, as stated.  IndentStream returns no error when its reader ends     *)
(* after one complete top-level value and any number of white space bytes. *)
(***************************************************************************)
C16_AsStated ==
    (res.op = "IndentConfig.IndentStream"
        /\ res.end = EOFError
        /\ res.wok
        /\ JValues(input).ok
        /\ Len(JValues(input).spans) = 1) =>
        res.err = nil

(***************************************************************************)
(* The Stream (indent_config.go).  A Stream is a record                    *)
(*   buf, scanp, scanned, scan, err, prefix, indent, conf, scratch         *)
(*          the fields of the struct; scanp counts the bytes of buf        *)
(*          before the first unread one, scratch is the content of the     *)
(*          scratch buffer                                                 *)
(*   rd     the reader under the bufio.Reader: pos bytes of the source     *)
(*          were read, a Read hands out at most chunk bytes, and at the    *)
(*          end of the source it hands out none and fails with end; with   *)
(*          together it hands out the last bytes and the error at once     *)
(* The source is given apart, as source.                                     *)
(***************************************************************************)
NewStream(pooled, conf, chunk, end) ==
    [buf |-> <<>>, scanp |-> 0, scanned |-> 0, scan |-> newScanner(pooled),
     err |-> nil, prefix |-> <<>>, indent |-> <<>>, conf |-> conf,
     scratch |-> <<>>,
     rd |-> [pos |-> 0, chunk |-> chunk, end |-> end, together |-> FALSE]]

SetIndent(dec, prefix, indent) ==
    [dec EXCEPT !.prefix = prefix, !.indent = indent]

\* bufio.Reader.Read into the free part of buf, which is never shorter than
\* minRead: the bytes and the error it returns, and the reader after it.
Read(rd, source) ==
    IF rd.pos >= Len(source)
    THEN [bytes |-> <<>>, err |-> rd.end, rd |-> rd]
    ELSE IF rd.pos + rd.chunk >= Len(source)
    THEN [bytes |-> SubSeq(source, rd.pos + 1, Len(source)),
          err |-> IF rd.together THEN rd.end ELSE nil,
          rd |-> [rd EXCEPT !.pos = Len(source)]]
    ELSE [bytes |-> SubSeq(source, rd.pos + 1, rd.pos + rd.chunk), err |-> nil,
          rd |-> [rd EXCEPT !.pos = @ + rd.chunk]]

\* refill: the consumed bytes slide out of buf, then one Read.
refill(dec, source) ==
    The({[dec |-> [dec EXCEPT !.scanned = @ + dec.scanp,
                              !.buf = SubSeq(@, dec.scanp + 1, Len(@)) \o r.bytes,
                              !.scanp = 0,
                              !.rd = r.rd],
          err |-> r.err] :
         r \in {Read(dec.rd, source)}})

\* nonSpace, which readValue calls, is defined in a file that is not among
\* the sources; by its name and its use it is true when b holds a byte that
\* is not white space.
nonSpace(b) == \E k \in 1..Len(b) : ~isSpace(b[k])

(***************************************************************************)
(* readValue.  The record w holds dec and the variables of the function:   *)
(* scanp, err (the error of the last refill), and what it returns once     *)
(* done is set: n and ret.                                                 *)
(***************************************************************************)

\* Mutant of valueEnd: the byte that told the end belongs to the value.
valueEnd_WithTrigger(scanp, v) == scanp + 1

\* The end of the value in buf when the byte at scanp told it: before that
\* byte after ScanEnd, which comes one byte late, and after it when it
\* closes an object or an array.
valueEnd(scanp, v) == IF v = ScanEnd THEN scanp ELSE scanp + 1

\* Mutant of readValueIter: the byte that told the end stays counted.
readValueIter_Counted(w, o) ==
    CASE o.ret = ScanEnd ->
           [w EXCEPT !.dec.scan = o.scan,
                     !.scanp = valueEnd(w.scanp, o.ret),
                     !.done = TRUE]
      [] o.ret \in {ScanEndObject, ScanEndArray} ->
           The({IF p.ret = ScanEnd
                THEN [w EXCEPT !.dec.scan = p.scan,
                               !.scanp = valueEnd(w.scanp, o.ret),
                               !.done = TRUE]
                ELSE [w EXCEPT !.dec.scan = p.scan, !.scanp = @ + 1] :
                p \in {stateEndValue(o.scan, " ")}})
      [] o.ret = ScanError ->
           [w EXCEPT !.dec.scan = o.scan,
                     !.dec.err = o.scan.err,
                     !.ret = o.scan.err,
                     !.done = TRUE]
      [] OTHER -> [w EXCEPT !.dec.scan = o.scan, !.scanp = @ + 1]

\* The switch on what the scanner made of the byte at scanp.
readValueIter(w, o) ==
    CASE o.ret = ScanEnd ->
           [w EXCEPT !.dec.scan = [o.scan EXCEPT !.bytes = @ - 1],
                     !.scanp = valueEnd(w.scanp, o.ret),
                     !.done = TRUE]
      [] o.ret \in {ScanEndObject, ScanEndArray} ->
           The({IF p.ret = ScanEnd
                THEN [w EXCEPT !.dec.scan = p.scan,
                               !.scanp = valueEnd(w.scanp, o.ret),
                               !.done = TRUE]
                ELSE [w EXCEPT !.dec.scan = p.scan, !.scanp = @ + 1] :
                p \in {stateEndValue(o.scan, " ")}})
      [] o.ret = ScanError ->
           [w EXCEPT !.dec.scan = o.scan,
                     !.dec.err = o.scan.err,
                     !.ret = o.scan.err,
                     !.done = TRUE]
      [] OTHER -> [w EXCEPT !.dec.scan = o.scan, !.scanp = @ + 1]

\* Mutant of readValueEnd: the end of the source is io.EOF whatever was
\* read.
readValueEnd_AlwaysEOF(w, p) ==
    [w EXCEPT !.dec.scan = p.scan,
              !.dec.err = EOFError,
              !.ret = EOFError,
              !.done = TRUE]

\* At io.EOF with buf scanned to its end, p being what the scanner made of
\* an invented space: a value that the end of the source ends, or the error
\* io.ErrUnexpectedEOF when buf holds more than white space, or io.EOF.
readValueEnd(w, p) ==
    IF p.ret = ScanEnd
    THEN [w EXCEPT !.dec.scan = p.scan, !.done = TRUE]
    ELSE IF nonSpace(w.dec.buf)
    THEN [w EXCEPT !.dec.scan = p.scan,
                   !.dec.err = ErrUnexpectedEOF,
                   !.ret = ErrUnexpectedEOF,
                   !.done = TRUE]
    ELSE [w EXCEPT !.dec.scan = p.scan,
                   !.dec.err = EOFError,
                   !.ret = EOFError,
                   !.done = TRUE]

\* Mutant of refilled: after a refill the scan goes on at dec.scanp.
refilled_Restart(w, r) ==
    [w EXCEPT !.dec = r.dec, !.err = r.err, !.scanp = r.dec.scanp]

\* After a refill r, scanp keeps its distance from dec.scanp.
refilled(w, r) ==
    [w EXCEPT !.dec = r.dec,
              !.err = r.err,
              !.scanp = r.dec.scanp + (w.scanp - w.dec.scanp)]

\* One round: the next byte of buf, or at its end the error of the last
\* refill, or a refill.
readValueStep(w, source) ==
    IF w.scanp < Len(w.dec.buf)
    THEN The({readValueIter(w, o) :
              o \in {step([w.dec.scan EXCEPT !.bytes = @ + 1],
                          w.dec.buf[w.scanp + 1])}})
    ELSE IF w.err # nil
    THEN IF w.err = EOFError
         THEN The({readValueEnd(w, p) : p \in {step(w.dec.scan, " ")}})
         ELSE [w EXCEPT !.dec.err = w.err, !.ret = w.err, !.done = TRUE]
    ELSE The({refilled(w, r) : r \in {refill(w.dec, source)}})

RECURSIVE readValueLoop(_, _)
readValueLoop(w, source) ==
    IF w.done THEN w
    ELSE The({readValueLoop(n, source) : n \in {readValueStep(w, source)}})

\* readValue: dec after it, the length n of the value in buf from
\* dec.scanp on, and the error.
readValue(dec, source) ==
    The({[dec |-> w.dec,
          n |-> IF w.ret = nil THEN w.scanp - w.dec.scanp ELSE 0,
          err |-> w.ret] :
         w \in {readValueLoop([dec |-> [dec EXCEPT !.scan = ScannerReset(@)],
                               scanp |-> dec.scanp, err |-> nil, ret |-> nil,
                               done |-> FALSE],
                              source)}})

(***************************************************************************)
(* Next returns a record                                                   *)
(*   dec   the Stream after the call                                       *)
(*   from  the number of bytes of the source before the bytes it took      *)
(*   val   the bytes that readValue delimited                              *)
(*   out   the bytes returned                                              *)
(*   array the array that holds them: "make" for an array that the call    *)
(*         made and that nothing else refers to, "scratch" for the array   *)
(*         of the scratch buffer, "nil" when no slice is returned          *)
(*   err   the error returned                                              *)
(*   pool  the scanner that IndentConfig.Indent gave back to the pool      *)
(***************************************************************************)
NextResult(dec, from, val, out, array, err, pool) ==
    [dec |-> dec, from |-> from, val |-> val, out |-> out, array |-> array,
     err |-> err, pool |-> pool]

\* out := make([]byte, s.scratch.Len()); copy(out, s.scratch.Bytes()): the
\* bytes of the scratch buffer in an array of their own.
owned(scratch) == [array |-> "make", bytes |-> scratch]

\* Next after readValue returned r without error: the value is formatted by
\* IndentConfig.Indent into the scratch buffer after its Reset, and a line
\* feed follows it.
nextValue(r, pooled) ==
    The({IF q.err # nil
         THEN NextResult([r.dec EXCEPT !.scanp = @ + r.n, !.scratch = q.dst],
                         r.dec.scanned + r.dec.scanp,
                         SubSeq(r.dec.buf, r.dec.scanp + 1, r.dec.scanp + r.n),
                         <<>>, "nil", q.err, q.scan)
         ELSE The({NextResult([r.dec EXCEPT !.scanp = @ + r.n,
                                            !.scratch = Append(q.dst, "\n")],
                              r.dec.scanned + r.dec.scanp,
                              SubSeq(r.dec.buf, r.dec.scanp + 1,
                                     r.dec.scanp + r.n),
                              o.bytes, o.array, nil, q.scan) :
                   o \in {owned(Append(q.dst, "\n"))}}) :
         q \in {IndentConfigIndent(pooled, r.dec.conf, <<>>,
                                   SubSeq(r.dec.buf, r.dec.scanp + 1,
                                          r.dec.scanp + r.n),
                                   r.dec.prefix, r.dec.indent)}})

\* Mutant of StreamNext: the error of an earlier call is not looked at.
StreamNext_NoLatch(dec, source, pooled) ==
    The({IF r.err # nil
         THEN NextResult(r.dec, r.dec.scanned + r.dec.scanp, <<>>, <<>>, "nil",
                         r.err, pooled)
         ELSE nextValue(r, pooled) :
         r \in {readValue(dec, source)}})

StreamNext(dec, source, pooled) ==
    IF dec.err # nil
    THEN NextResult(dec, dec.scanned + dec.scanp, <<>>, <<>>, "nil", dec.err,
                    pooled)
    ELSE The({IF r.err # nil
              THEN NextResult(r.dec, r.dec.scanned + r.dec.scanp, <<>>, <<>>,
                              "nil", r.err, pooled)
              ELSE nextValue(r, pooled) :
              r \in {readValue(dec, source)}})

(***************************************************************************)
(* Stream.Indent.  The record w holds the Stream, the pool, the sink wr,   *)
(* the variables nn and i of the function, and err once it returned.  The  *)
(* loop panics when i exceeds watLimit, 1000 in the code.                  *)
(***************************************************************************)
WatBound == 2

watLimit == WatBound

Panic == [msg |-> "panic: WAT", Offset |-> 0]

\* One iteration, x being what Next returned.  A sink that fails takes no
\* byte.
streamIndentIter(w, x, wok) ==
    IF x.err # nil
    THEN [w EXCEPT !.dec = x.dec, !.pool = x.pool, !.err = x.err, !.done = TRUE]
    ELSE IF ~wok
    THEN [w EXCEPT !.dec = x.dec, !.pool = x.pool, !.err = WriteError,
                   !.done = TRUE]
    ELSE IF w.i > watLimit
    THEN [w EXCEPT !.dec = x.dec, !.pool = x.pool, !.wr = @ \o x.out,
                   !.nn = @ + Len(x.out), !.err = Panic, !.done = TRUE]
    ELSE [w EXCEPT !.dec = x.dec, !.pool = x.pool, !.wr = @ \o x.out,
                   !.nn = @ + Len(x.out), !.i = @ + 1]

RECURSIVE streamIndentLoop(_, _, _)
streamIndentLoop(w, source, wok) ==
    IF w.done THEN w
    ELSE The({streamIndentLoop(n, source, wok) :
              n \in {The({streamIndentIter(w, x, wok) :
                          x \in {StreamNext(w.dec, source, w.pool)}})}})

StreamIndent(dec, source, pooled, wr, wok) ==
    IF dec.err # nil
    THEN [dec |-> dec, pool |-> pooled, wr |-> wr, nn |-> 0, i |-> 0,
          err |-> dec.err, done |-> TRUE]
    ELSE streamIndentLoop([dec |-> dec, pool |-> pooled, wr |-> wr, nn |-> 0,
                           i |-> 0, err |-> nil, done |-> FALSE],
                          source, wok)

(***************************************************************************)
(* The callers of a Stream.                                                *)
(*   input the source                                                      *)
(*   cfg   the IndentConfig given to NewStream, and the prefix and the     *)
(*         indent that SetIndent sets                                      *)
(*   strm  the Stream                                                      *)
(*   outs  what the calls of Next returned, in order, each slice with its  *)
(*         content when the call returned                                  *)
(*   res   what the call of Stream.Indent returned; nn is the number of    *)
(*         bytes it reports, dst the sink after it                         *)
(*   scan  the scanner in the pool                                         *)
(* MaxChunk bounds what one Read hands out, MaxCalls the calls of Next.    *)
(***************************************************************************)
MaxChunk == 2

MaxCalls == 4

StreamAlphabet == {"[", "]", "1", " ", "\""}

StreamSeeds ==
    {<<"1", " ", "2", "\n", "3", " ", "4">>,
     <<"[", "1", ",", "2", ",", "3", "]", "[", "4", ",", "5", ",", "6", "]">>,
     <<"{", "}", "{", "}">>,
     <<"{", "\"", "a", "\"", ":", "[", "1", ",", "{", "}", "]", "}", "\n", "\n",
       "t", "r", "u", "e">>,
     <<" ", "\"", "a", "\"", "\"", "b", "\"", " ">>,
     <<"[", "1", "]", "\n", "{", "\"", "a", "\"", ":">>,
     <<"n", "u", "l", "l", " ", "t", "r", "u">>,
     <<"[", "1", "]", " ", "x">>,
     <<"-">>,
     <<"{", "\"", "a", "\"", ":", "1", "}">>,
     Repeat(<<"[">>, maxNestingDepth + 1) \o <<"1">>
         \o Repeat(<<"]">>, maxNestingDepth + 1)}

StreamSources == Words(StreamAlphabet, MaxSrcLen) \cup StreamSeeds

StreamConfigs == {c \in Configs : c.indent # <<>>}

InitStream ==
    /\ scan = ZeroScanner
    /\ data = <<>>
    /\ sigs = <<>>
    /\ op = "none"
    /\ ret = ScanContinue
    /\ valid = FALSE
    /\ stepsOnly = TRUE
    /\ resets = 0
    /\ input \in StreamSources
    /\ cfg \in StreamConfigs
    /\ res = NoCall
    /\ \E chunk \in 1..MaxChunk, end \in {EOFError, ReadError},
          together \in BOOLEAN :
         strm = [NewStream(ZeroScanner, cfg.conf, chunk, end)
                    EXCEPT !.rd.together = together]
    /\ outs = <<>>

\* SetIndent, before the Stream is read.
CallSetIndent ==
    /\ outs = <<>>
    /\ res.op = "none"
    /\ strm.indent # cfg.indent
    /\ strm' = SetIndent(strm, cfg.prefix, cfg.indent)
    /\ UNCHANGED <<callerVars, scan, input, cfg, res, outs>>

CallNext ==
    /\ Len(outs) < MaxCalls
    /\ res.op = "none"
    /\ \E x \in {StreamNext(strm, input, scan)} :
        /\ strm' = x.dec
        /\ scan' = x.pool
        /\ outs' = Append(outs, [from |-> x.from, val |-> x.val, out |-> x.out,
                                 array |-> x.array, err |-> x.err])
    /\ UNCHANGED <<callerVars, input, cfg, res>>

\* Stream.Indent on a sink that works or fails.
CallStreamIndent ==
    /\ res.op = "none"
    /\ \E wok \in BOOLEAN :
         \E x \in {StreamIndent(strm, input, scan, <<>>, wok)} :
            /\ strm' = x.dec
            /\ scan' = x.pool
            /\ res' = [op |-> "Stream.Indent", end |-> strm.rd.end,
                       wok |-> wok, dst |-> x.wr, written |-> x.wr,
                       nn |-> x.nn, err |-> x.err, want |-> <<>>]
    /\ UNCHANGED <<callerVars, input, cfg, outs>>

NextStream ==
    \/ CallSetIndent
    \/ CallNext
    \/ CallStreamIndent

SpecStream == InitStream /\ [][NextStream]_vars

(***************************************************************************)
(* Helpers of the statements about the Stream.                             *)
(***************************************************************************)
\* The i-th top-level value of s.
ValueOf(s, i) == SubSeq(s, JValues(s).spans[i][1], JValues(s).spans[i][2])

\* v is white space, one complete value nested at most d deep, and nothing
\* after it.
OneValue(v, d) == (Len(v) + 1) \in JValue(v, MaxOf(JWs(v, 1)), d).ends

AllSpace(v) == \A k \in 1..Len(v) : v[k] \in JWhitespace

\* The bytes of the source that the calls of Next before the i-th left.
Unconsumed(i) == SubSeq(input, outs[i].from + 1, Len(input))

\* The i-th call of Next found the Stream without error.
FirstError(i) == i = 1 \/ outs[i - 1].err = nil

(***************************************************************************)
(* C17, as stated.  Over a source of k well-formed values that ends with   *)
(* io.EOF, read without colours, the i-th call of Next returns the         *)
(* indented form of the i-th value (what Indent writes for it) and a line  *)
(* feed, and call k + 1 returns io.EOF.                                    *)
(***************************************************************************)
C17_AsStated ==
    (JValues(input).ok /\ strm.rd.end = EOFError /\ cfg.conf = ZeroIndentConfig) =>
        \A i \in 1..Len(outs) :
            /\ i <= Len(JValues(input).spans) =>
                 /\ outs[i].err = nil
                 /\ outs[i].out =
                      Append(Indent(ZeroScanner, <<>>, ValueOf(input, i),
                                    strm.prefix, strm.indent).dst, "\n")
            /\ i = Len(JValues(input).spans) + 1 => outs[i].err = EOFError

(***************************************************************************)
(* C18, as stated.  Stream.Indent over a source of well-formed values that *)
(* ends with io.EOF, on a sink that works, returns a nil error.            *)
(***************************************************************************)
C18_AsStated ==
    (res.op = "Stream.Indent"
        /\ outs = <<>>
        /\ res.end = EOFError
        /\ res.wok
        /\ JValues(input).ok
        /\ Len(JValues(input).spans) >= 1) =>
        res.err = nil

(***************************************************************************)
(* C19.  The bytes that readValue delimits for a call of Next that returns *)
(* a value are white space and then exactly one complete top-level value;  *)
(* they are the bytes of the source that follow those of the call before,  *)
(* so that no byte is skipped or belongs to two values, and the byte that  *)
(* told the end of a value is left to the next call.                       *)
(***************************************************************************)
C19_ExactSpans ==
    \A i \in 1..Len(outs) :
        outs[i].err = nil =>
            /\ OneValue(outs[i].val, maxNestingDepth)
            /\ outs[i].val = SubSeq(input, outs[i].from + 1,
                                    outs[i].from + Len(outs[i].val))
            /\ outs[i].from = (IF i = 1 THEN 0
                               ELSE outs[i - 1].from + Len(outs[i - 1].val))

\* Two values with nothing between them, the first one ended by the first
\* byte of the second.
C19_Witness ==
    /\ Len(outs) >= 2
    /\ outs[2].err = nil
    /\ outs[1].val[Len(outs[1].val)] \notin {"]", "}"}
    /\ ~isSpace(outs[2].val[1])

\* The statement of C20 and of its amendment, for values nested at most d
\* deep: what the first call of Next that meets the end of the source
\* returns, by what the source still held.
AtExhaustion(d) ==
    strm.rd.end = EOFError =>
        \A i \in 1..Len(outs) :
            FirstError(i) =>
                /\ JDocWithin(Unconsumed(i), d) =>
                     /\ outs[i].err = nil
                     /\ JDocWithin(outs[i].val, d)
                /\ AllSpace(Unconsumed(i)) => outs[i].err = EOFError
                /\ (/\ ~AllSpace(Unconsumed(i))
                    /\ JPrefixWithin(Unconsumed(i), d)
                    /\ ~JDocWithin(Unconsumed(i), d)) =>
                     outs[i].err = ErrUnexpectedEOF

(***************************************************************************)
(* C20, as stated.  At the end of the source Next returns a value when the *)
(* unconsumed bytes are a complete value, io.EOF when they are white space *)
(* or nothing, io.ErrUnexpectedEOF when they are the beginning of a value. *)
(***************************************************************************)
C20_AsStated == AtExhaustion(Len(input))

(***************************************************************************)
(* C20, amended.  The same for values nested at most maxNestingDepth deep. *)
(***************************************************************************)
C20_AtExhaustion == AtExhaustion(maxNestingDepth)

\* A value was returned, and the source ended inside the next one.
C20_Witness ==
    /\ strm.rd.end = EOFError
    /\ Len(outs) >= 2
    /\ outs[1].err = nil
    /\ outs[2].err = ErrUnexpectedEOF

(***************************************************************************)
(* Helpers of the statements about the bytes that the transcoders write.   *)
(***************************************************************************)
\* The bytes that a call appended: what the buffer (or the underlying
\* writer) holds after the bytes it held before.
Appended == SubSeq(res.dst, Len(cfg.dst) + 1, Len(res.dst))

\* The bytes that a call wrote, kept or not: for a streaming transcoder the
\* bytes given to the buffered sink, for the others the bytes appended.
Output == IF res.op \in BufferOps THEN Appended ELSE res.written

IsSpaceOnly(s) == \A k \in 1..Len(s) : s[k] \in JWhitespace

IndentOps ==
    {"Indent", "IndentConfig.Indent", "IndentConfig.IndentStream",
     "testIndentConfigIndentStream"}

\* Place k of s is inside the escape sequence of a colour: from the byte
\* 0x1b to the next "m", five bytes at most.
InEscape(s, k) ==
    \E j \in 1..k :
        /\ k - j <= 4
        /\ s[j] = ESC
        /\ \A n \in j..(k - 1) : s[n] # "m"

\* The bytes of s from place lo to place hi that are outside the escape
\* sequences of the colours.
RECURSIVE UncolouredWithin(_, _, _)
UncolouredWithin(s, lo, hi) ==
    IF lo > hi THEN <<>>
    ELSE IF \A k \in 1..hi : k >= lo - 4 => s[k] # ESC THEN SubSeq(s, lo, hi)
    ELSE IF lo = hi THEN (IF InEscape(s, lo) THEN <<>> ELSE <<s[lo]>>)
    ELSE UncolouredWithin(s, lo, (lo + hi) \div 2)
             \o UncolouredWithin(s, (lo + hi) \div 2 + 1, hi)

Uncoloured(s) == The({UncolouredWithin(b, 1, Len(b)) : b \in {s}})

\* The white space that ends s.
RECURSIVE TrailingSpace(_)
TrailingSpace(s) ==
    IF s = <<>> \/ s[Len(s)] \notin JWhitespace THEN <<>>
    ELSE Append(TrailingSpace(SubSeq(s, 1, Len(s) - 1)), s[Len(s)])

\* The first byte of s that is not white space (s holds one).
FirstSignificant(s) == s[CHOOSE k \in 1..Len(s) :
                             /\ s[k] \notin JWhitespace
                             /\ \A j \in 1..(k - 1) : s[j] \in JWhitespace]

(***************************************************************************)
(* C23, as stated.  For a valid document, without colours and with a       *)
(* prefix and an indent of white space, Indent and IndentConfig.Indent     *)
(* applied to their own output with the same prefix and indent return no   *)
(* error and write that output again, byte for byte.                       *)
(***************************************************************************)
C23_AsStated ==
    (/\ res.op \in {"Indent", "IndentConfig.Indent"}
     /\ cfg.conf = ZeroIndentConfig
     /\ IsSpaceOnly(cfg.prefix)
     /\ IsSpaceOnly(cfg.indent)
     /\ JDocWithin(input, maxNestingDepth)) =>
        /\ res.err = nil
        /\ \A again \in {IF res.op = "Indent"
                         THEN Indent(ZeroScanner, <<>>, Appended, cfg.prefix,
                                     cfg.indent)
                         ELSE IndentConfigIndent(ZeroScanner, cfg.conf, <<>>,
                                                 Appended, cfg.prefix,
                                                 cfg.indent)} :
            /\ again.err = nil
            /\ again.dst = Appended

\* Place k of s follows an odd number of backslashes.
Escaped(s, k) ==
    Cardinality({j \in 1..(k - 1) : \A n \in j..(k - 1) : s[n] = "\\"}) % 2 = 1

\* Place k of s is inside a string: an odd number of quotes that open or
\* close a string come before it.
InString(s, k) ==
    Cardinality({j \in 1..(k - 1) : s[j] = "\"" /\ ~Escaped(s, j)}) % 2 = 1

\* No closing bracket of s outside strings follows an opening bracket with
\* only white space, and some, between them.
Tight(s) ==
    \A k \in 1..Len(s) :
        (s[k] \in {"{", "["} /\ ~InString(s, k)) =>
            \A g \in 1..(Len(s) - k - 1) :
                ~(/\ s[k + g + 1] \in {"}", "]"}
                  /\ \A j \in (k + 1)..(k + g) : s[j] \in JWhitespace)

\* The number of the places k of s that hold an opening bracket, with the
\* closing bracket of the same kind at place k + gap + 1 and white
\* space between them.
EmptyPairs(s, gap) ==
    Cardinality({k \in 1..(Len(s) - gap - 1) :
        /\ <<s[k], s[k + gap + 1]>> \in {<<"[", "]">>, <<"{", "}">>}
        /\ \A j \in (k + 1)..(k + gap) : s[j] \in JWhitespace})

(***************************************************************************)
(* C24.  In what an indenting operation writes (Indent,                    *)
(* IndentConfig.Indent, IndentConfig.IndentStream), with any prefix and    *)
(* indent and with colours or without, no white space stands between an    *)
(* opening bracket and a closing bracket: an object or an array without    *)
(* elements is written as its two brackets, with at most the escape        *)
(* sequences of the colours between them, whatever white space the input   *)
(* has there and however deep it is nested.                                *)
(***************************************************************************)
C24_EmptyContainers ==
    res.op \in IndentOps =>
        \A out \in {Uncoloured(Output)} : Tight(out)

\* An empty array with white space between its brackets, inside another
\* array, indented with an indent that is not empty and written without it.
C24_Witness ==
    /\ res.op \in IndentOps
    /\ res.err = nil
    /\ cfg.indent # <<>>
    /\ input = <<"[", "[", " ", "]", "]">>
    /\ \E out \in {Uncoloured(Output)} : EmptyPairs(out, 0) = 1

\* A new line at depth d: a line feed, the prefix, and d copies of the
\* indent.
Line(prefix, indent, d) == <<"\n">> \o prefix \o Repeat(indent, d)

\* The layout of the document s from place i on, with the white space that
\* follows it left out.  str and esc are those of SignificantFrom; prev is
\* the last byte before place i outside strings and white space when it is
\* a bracket or a comma, and "x" otherwise; d is the number of the
\* containers that enclose place i.
RECURSIVE LayoutFrom(_, _, _, _, _, _, _, _)
LayoutFrom(s, i, str, esc, prev, d, prefix, indent) ==
    IF i > Len(s) THEN <<>>
    ELSE IF str
    THEN <<s[i]>> \o LayoutFrom(s, i + 1, esc \/ s[i] # "\"",
                                ~esc /\ s[i] = "\\", "x", d, prefix, indent)
    ELSE IF s[i] \in JWhitespace
    THEN LayoutFrom(s, i + 1, FALSE, FALSE, prev, d, prefix, indent)
    ELSE IF s[i] \in {"}", "]"}
    THEN (IF prev \in {"{", "["} THEN <<>> ELSE Line(prefix, indent, d - 1))
             \o <<s[i]>>
             \o LayoutFrom(s, i + 1, FALSE, FALSE, "x", d - 1, prefix, indent)
    ELSE IF s[i] = ","
    THEN <<",">> \o LayoutFrom(s, i + 1, FALSE, FALSE, ",", d, prefix, indent)
    ELSE IF s[i] = ":"
    THEN <<":", " ">>
             \o LayoutFrom(s, i + 1, FALSE, FALSE, "x", d, prefix, indent)
    ELSE (IF prev \in {"{", "[", ","} THEN Line(prefix, indent, d) ELSE <<>>)
             \o <<s[i]>>
             \o LayoutFrom(s, i + 1, s[i] = "\"", FALSE,
                           IF s[i] \in {"{", "["} THEN s[i] ELSE "x",
                           IF s[i] \in {"{", "["} THEN d + 1 ELSE d,
                           prefix, indent)

Layout(s, prefix, indent) ==
    LayoutFrom(s, 1, FALSE, FALSE, "x", 0, prefix, indent)

(***************************************************************************)
(* C25.  For a valid document Indent and IndentConfig.Indent return no     *)
(* error, and what they write, the escape sequences of the colours apart,  *)
(* begins with the document laid out so: the first line without prefix or  *)
(* indent; every element of an object or an array that has elements after  *)
(* a line feed, the prefix and as many copies of the indent as containers  *)
(* enclose the element; the closing bracket of such a container after a    *)
(* line feed, the prefix and as many copies of the indent as containers    *)
(* enclose the container; one space after every colon between a key and    *)
(* its value; and no other white space outside strings.                    *)
(***************************************************************************)
C25_Layout ==
    (/\ res.op \in {"Indent", "IndentConfig.Indent"}
     /\ JDocWithin(input, maxNestingDepth)) =>
        /\ res.err = nil
        /\ \E out \in {Uncoloured(Appended)} :
               IsPrefixOf(Layout(input, cfg.prefix, cfg.indent), out)

\* An object with a key and in it an array of two literals, written with
\* colours, a prefix and an indent.
C25_Witness ==
    /\ res.op \in {"Indent", "IndentConfig.Indent"}
    /\ res.err = nil
    /\ cfg.prefix # <<>>
    /\ cfg.indent # <<>>
    /\ input = <<"{", "\"", "k", "\"", ":", "[", "n", "u", "l", "l", ",", "\"",
                 "x", "\"", "]", "}">>
    /\ \E out \in {Uncoloured(Appended)} :
         out = <<"{">> \o Line(cfg.prefix, cfg.indent, 1)
                   \o <<"\"", "k", "\"", ":", " ", "[">>
                   \o Line(cfg.prefix, cfg.indent, 2) \o <<"n", "u", "l", "l", ",">>
                   \o Line(cfg.prefix, cfg.indent, 2) \o <<"\"", "x", "\"">>
                   \o Line(cfg.prefix, cfg.indent, 1) \o <<"]">>
                   \o Line(cfg.prefix, cfg.indent, 0) \o <<"}">>

(***************************************************************************)
(* C26.  For a valid document Indent and IndentConfig.Indent write nothing *)
(* for the white space before the first value (what they write begins with *)
(* the first byte of the value) and copy the white space that follows the  *)
(* top-level value: what they write ends with exactly the white space that *)
(* ends the input, none if the input ends with the value.                  *)
(***************************************************************************)
C26_LeadingTrailing ==
    (/\ res.op \in {"Indent", "IndentConfig.Indent"}
     /\ JDocWithin(input, maxNestingDepth)) =>
        /\ res.err = nil
        /\ \E out \in {Uncoloured(Appended)} :
               out # <<>> /\ out[1] = FirstSignificant(input)
        /\ TrailingSpace(Appended) = TrailingSpace(input)

\* A document with a space before it and a line feed after it, or with two
\* line feeds after it.
C26_Witness ==
    /\ res.op \in {"Indent", "IndentConfig.Indent"}
    /\ res.err = nil
    /\ JDocWithin(input, maxNestingDepth)
    /\ \/ input[1] = " " /\ TrailingSpace(Appended) = <<"\n">>
       \/ TrailingSpace(Appended) = <<"\n", "\n">>

(***************************************************************************)
(* C27, as stated.  With an IndentConfig without colours,                  *)
(* IndentConfig.Indent and IndentConfig.IndentStream (on a reader that     *)
(* ends with io.EOF and a writer that works) return an error on exactly    *)
(* the inputs on which Indent returns one, and otherwise write exactly the *)
(* bytes that Indent writes; and newline writes for an indent of spaces    *)
(* the bytes that it writes when it repeats the indent.                    *)
(***************************************************************************)
C27_AsStated ==
    (/\ res.op \in {"IndentConfig.Indent", "IndentConfig.IndentStream"}
     /\ cfg.conf = ZeroIndentConfig
     /\ res.end \in {nil, EOFError}
     /\ res.wok) =>
        /\ \A p \in {Indent(ZeroScanner, cfg.dst, input, cfg.prefix, cfg.indent)} :
            /\ (res.err = nil) <=> (p.err = nil)
            /\ p.err = nil => res.dst = p.dst
        /\ isAllSpaces(cfg.indent) =>
             \A d \in 0..maxNestingDepth :
                 newline(<<>>, cfg.prefix, cfg.indent, d, TRUE)
                     = newline(<<>>, cfg.prefix, cfg.indent, d, FALSE)

(***************************************************************************)
(* C28, as stated.  With an IndentConfig without colours, for a valid      *)
(* document, followed by white space or not, IndentConfig.Compact and      *)
(* IndentConfig.CompactStream (on a reader that ends with io.EOF and a     *)
(* writer that works) return no error and write exactly the bytes that     *)
(* Compact writes.                                                         *)
(***************************************************************************)
C28_AsStated ==
    (/\ res.op \in {"IndentConfig.Compact", "IndentConfig.CompactStream"}
     /\ cfg.conf = ZeroIndentConfig
     /\ res.end \in {nil, EOFError}
     /\ res.wok
     /\ JDocWithin(input, maxNestingDepth)) =>
        /\ res.err = nil
        /\ \A p \in {Compact(ZeroScanner, cfg.dst, input)} : res.dst = p.dst

(***************************************************************************)
(* C29.  For a valid document Compact returns no error and appends to dst  *)
(* the bytes of the input without the white space outside strings (before, *)
(* between and after the tokens), every other byte kept as it is and in    *)
(* its order, the white space inside strings included.                     *)
(***************************************************************************)
C29_CompactBytes ==
    (res.op = "Compact" /\ JDocWithin(input, maxNestingDepth)) =>
        /\ res.err = nil
        /\ res.dst = cfg.dst \o Significant(input)

\* A document with white space before it, between its tokens and after it,
\* appended to a buffer that held bytes.
C29_Witness ==
    /\ res.op = "Compact"
    /\ res.err = nil
    /\ cfg.dst # <<>>
    /\ input = <<" ", "[", " ", "1", " ", ",", " ", "f", "a", "l", "s", "e", " ",
                 "]", "\n">>
    /\ Appended = <<"[", "1", ",", "f", "a", "l", "s", "e", "]">>

\* The escape sequence of s at place k, where s holds the byte 0x1b: the
\* bytes to the next "m", five at most.
EscapeAt(s, k) ==
    SubSeq(s, k, CHOOSE e \in k..(k + 5) :
                     \/ e = k + 5
                     \/ e > Len(s)
                     \/ (s[e] = "m" /\ \A n \in k..(e - 1) : s[n] # "m"))

\* Place k of s is in colour: the last escape sequence that begins before it
\* is not the reset.
InColour(s, k) ==
    \E j \in 1..(k - 1) :
        /\ s[j] = ESC
        /\ \A n \in (j + 1)..(k - 1) : s[n] # ESC
        /\ EscapeAt(s, j) # TermReset

\* The colour that conf gives to a token by its first byte c; a string is a
\* key or a value.
ColoursOf(conf, c) ==
    CASE c = "\"" -> {conf.String, conf.Keyword}
      [] c = "n" -> {conf.Null}
      [] c = "t" -> {conf.True}
      [] c = "f" -> {conf.False}
      [] c \in {"-", "0", "1", "2", "3", "4", "5", "6", "7", "8", "9"} ->
           {conf.Numeric}
      [] c \in {"{", "}", "[", "]", ",", ":"} -> {conf.Punctuation}
      [] OTHER -> {}

\* s is well coloured by conf: an escape sequence that is not the reset
\* begins out of colour, is the colour of the byte after it, and the reset
\* follows before s ends; the reset comes in colour; and the bytes out of
\* colour and out of the escape sequences are those of plain, the white
\* space and the bytes of the prefix and of the indent.
Wrapped(s, conf, plain) ==
    \A k \in 1..Len(s) :
        IF s[k] = ESC
        THEN IF EscapeAt(s, k) = TermReset
             THEN InColour(s, k)
             ELSE /\ ~InColour(s, k)
                  /\ k + Len(EscapeAt(s, k)) <= Len(s)
                  /\ EscapeAt(s, k) \in ColoursOf(conf, s[k + Len(EscapeAt(s, k))])
                  /\ \E j \in (k + 1)..Len(s) : s[j] = ESC
        ELSE (InEscape(s, k) \/ InColour(s, k)) \/ s[k] \in plain

(***************************************************************************)
(* C30, as stated.  In what IndentConfig.Indent leaves and in what         *)
(* IndentConfig.IndentStream writes with the colours of                    *)
(* DefaultIndentConfig, every literal (an element of an array, a value of  *)
(* an object, the top-level value) stands between the escape sequence of   *)
(* the colour that its first byte selects and the reset, and the reset     *)
(* follows the last byte of the literal on every path, also when the       *)
(* literal is the last token of the input.                                 *)
(***************************************************************************)
C30_AsStated ==
    (/\ res.op \in {"IndentConfig.Indent", "IndentConfig.IndentStream"}
     /\ cfg.conf = DefaultIndentConfig) =>
        \A out \in {Output} :
            Wrapped(out, cfg.conf,
                    JWhitespace \cup {cfg.prefix[k] : k \in 1..Len(cfg.prefix)}
                        \cup {cfg.indent[k] : k \in 1..Len(cfg.indent)})

(***************************************************************************)
(* C21.  Once a call of Next has returned an error (a syntax error, an     *)
(* error of the reader or io.EOF), every later call of Next returns that   *)
(* same error and no value, and leaves the Stream as it was: no byte is    *)
(* read from the source or taken from the buffer.                          *)
(***************************************************************************)
C21_ForwardOnly ==
    [][(/\ outs # <<>>
        /\ outs[Len(outs)].err # nil
        /\ Len(outs') = Len(outs) + 1) =>
           /\ outs'[Len(outs')].err = outs[Len(outs)].err
           /\ outs'[Len(outs')].out = <<>>
           /\ outs'[Len(outs')].array = "nil"
           /\ strm' = strm]_vars

\* Next was called again after a syntax error, and again after io.EOF that
\* followed a value.
C21_Witness ==
    /\ Len(outs) >= 3
    /\ outs[1].err = nil
    /\ outs[2].err # nil
    /\ outs[2].err \notin {EOFError, ErrUnexpectedEOF, ReadError}
    /\ outs[3].err = outs[2].err

\* The content now of the slice that the i-th call of Next returned: a slice
\* of the scratch buffer's array follows what is written there, an array of
\* its own keeps what the call copied into it.
SliceNow(i) ==
    IF outs[i].array = "scratch"
    THEN [k \in 1..Len(outs[i].out) |->
              IF k <= Len(strm.scratch) THEN strm.scratch[k] ELSE outs[i].out[k]]
    ELSE outs[i].out

(***************************************************************************)
(* C22, as stated.  What a call of Next returns without error is, without  *)
(* colours, the indented form of the value that the call read (what Indent *)
(* writes for it) and one line feed, in an array of its own, so that its   *)
(* bytes are after the later calls what they were when it returned.        *)
(***************************************************************************)
C22_AsStated ==
    \A i \in 1..Len(outs) :
        (outs[i].err = nil /\ cfg.conf = ZeroIndentConfig) =>
            /\ outs[i].out =
                 Append(Indent(ZeroScanner, <<>>, outs[i].val, strm.prefix,
                               strm.indent).dst, "\n")
            /\ outs[i].array = "make"
            /\ SliceNow(i) = outs[i].out


(***************************************************************************)
(* The error a Step records and the opcode it returns.                     *)
(***************************************************************************)

\* C40 as stated: after a Step call that returns an opcode other than
\* ScanError no error is recorded (a Step that records an error returns
\* ScanError).
C40_AsStated ==
    [][op' = "Step" => (ret' # ScanError => scan'.err = nil)]_vars

\* C40, amended: after a Step call Err() is nil exactly when the call
\* returned neither ScanError nor ScanEnd for a byte that is not white space;
\* the first such byte after the top-level value records its error and
\* returns ScanEnd, and the error is returned as ScanError by the next call.
C40_RecordedErrors ==
    [][op' = "Step" =>
          /\ scan'.err = nil <=>
               /\ ret' # ScanError
               /\ ~(ret' = ScanEnd /\ ~isSpace(data'[Len(data')]))
          /\ (scan.err = nil /\ scan'.err # nil /\ ret' # ScanError) =>
               /\ scan'.step = "stateError"
               /\ ret' = ScanEnd
               /\ scan'.endTop]_vars

\* A Step recorded an error and returned ScanError, after one that recorded
\* an error and returned ScanEnd.
C40_Witness ==
    /\ op = "Step"
    /\ Len(sigs) >= 3
    /\ sigs[Len(sigs)] = ScanError
    /\ sigs[Len(sigs) - 1] = ScanEnd
    /\ ~isSpace(data[Len(data) - 1])
    /\ scan.err # nil

(***************************************************************************)
(* The states of the loops of Indent, IndentConfig.Indent and IndentStream *)
(* between their iterations: the first, and the one after every iteration. *)
(***************************************************************************)
IndentStart(dst) ==
    [scan |-> newScanner(ZeroScanner), dst |-> dst, needIndent |-> FALSE,
     depth |-> 0, i |-> 1, stop |-> FALSE]

IndentStreamStart ==
    [scan |-> newScanner(ZeroScanner), dst |-> <<>>, needIndent |-> FALSE,
     depth |-> 0, resetBytes |-> 0, err |-> nil, i |-> 1, stop |-> FALSE]

RECURSIVE IndentStates(_, _, _, _)
IndentStates(w, src, prefix, indent) ==
    IF w.i > Len(src) \/ w.stop THEN {w}
    ELSE {w} \cup
         The({IndentStates(n, src, prefix, indent) :
              n \in {The({IndentIter(w, o, src[w.i], prefix, indent) :
                          o \in {step([w.scan EXCEPT !.bytes = @ + 1],
                                      src[w.i])}})}})

RECURSIVE ConfigIndentStates(_, _, _, _, _)
ConfigIndentStates(w, src, conf, prefix, indent) ==
    IF w.i > Len(src) \/ w.stop THEN {w}
    ELSE {w} \cup
         The({ConfigIndentStates(n, src, conf, prefix, indent) :
              n \in {The({ConfigIndentIter(w, o, src, conf, prefix, indent) :
                          o \in {ScannerStep(w.scan, src[w.i])}})}})

RECURSIVE IndentStreamStates(_, _, _, _, _)
IndentStreamStates(w, rd, conf, prefix, indent) ==
    IF w.stop \/ w.i > Len(rd.data) THEN {w}
    ELSE {w} \cup
         The({IndentStreamStates(n, rd, conf, prefix, indent) :
              n \in {The({IndentStreamIter(w, o, rd, conf, prefix, indent) :
                          o \in {ScannerStep(w.scan, rd.data[w.i])}})}})

LoopOps == {"Indent", "IndentConfig.Indent", "IndentConfig.IndentStream"}

\* The states that the loop of the last call went through.
LoopStates ==
    CASE res.op = "Indent" ->
           IndentStates(IndentStart(cfg.dst), input, cfg.prefix, cfg.indent)
      [] res.op = "IndentConfig.Indent" ->
           ConfigIndentStates(IndentStart(cfg.dst), input, cfg.conf,
                              cfg.prefix, cfg.indent)
      [] res.op = "IndentConfig.IndentStream" ->
           IndentStreamStates(IndentStreamStart,
                              [data |-> input, end |-> res.end], cfg.conf,
                              cfg.prefix, cfg.indent)
      [] OTHER -> {}

\* C39 as stated: in Indent, IndentConfig.Indent and IndentStream the depth is
\* never negative, whatever the input, so that newline is never called with
\* a negative depth.
C39_AsStated == \A w \in LoopStates : w.depth >= 0

\* C34: while Indent, IndentConfig.Indent or IndentStream processes a valid
\* document, between the iterations of the loop depth is the length of the
\* parse stack, less one while the indent after an opening bracket is
\* delayed; depth is 0 when the top-level value has ended and when the loop
\* ends.
C34_DepthTracksStack ==
    (/\ res.op \in LoopOps
     /\ JDocWithin(input, maxNestingDepth)) =>
        \A w \in LoopStates :
            /\ w.depth = Len(w.scan.parseState)
                           - (IF w.needIndent THEN 1 ELSE 0)
            /\ w.depth >= 0
            /\ (w.scan.endTop \/ w.i > Len(input)) =>
                   (w.depth = 0 /\ ~w.needIndent)

\* A document nested two deep: the loop went through a state of depth 2, one
\* with the indent delayed, and ended at depth 0.
C34_Witness ==
    /\ res.op \in LoopOps
    /\ res.err = nil
    /\ JDocWithin(input, maxNestingDepth)
    /\ \E w \in LoopStates : w.depth = 2 /\ Len(w.scan.parseState) = 2
    /\ \E w \in LoopStates : w.needIndent /\ w.depth = 1
    /\ \E w \in LoopStates : w.i > Len(input) /\ w.depth = 0

\* The error that checkValid returns for the input, on a scanner from the
\* pool.
CheckValidErr == checkValid(input, newScanner(ZeroScanner)).err

\* C36 as stated: for a malformed input Compact, Indent, IndentConfig.Indent
\* and IndentConfig.Compact return a SyntaxError with the Offset that
\* checkValid reports, the position of the first offending byte.
C36_AsStated ==
    (res.op \in BufferOps /\ res.err # nil) =>
        /\ res.err.Offset = CheckValidErr.Offset
        /\ ~JPrefixWithin(input, maxNestingDepth) =>
               /\ res.err.Offset \in 1..Len(input)
               /\ ~JPrefixWithin(Take(input, res.err.Offset), maxNestingDepth)
               /\ JPrefixWithin(Take(input, res.err.Offset - 1),
                                maxNestingDepth)

(***************************************************************************)
(* The scanner that an operation takes from the pool.  In a state of the   *)
(* callers of the transcoders scan is the instance in the pool, as the     *)
(* last operation left it.                                                 *)
(***************************************************************************)
InitialScanner ==
    [step |-> "stateBeginValue", endTop |-> FALSE, parseState |-> <<>>,
     err |-> nil, bytes |-> 0]

\* What the last operation returns when the pool hands it a new instance.
OnNewInstance ==
    CASE res.op = "Indent" ->
           Called(res.op, nil, TRUE,
                  Indent(ZeroScanner, cfg.dst, input, cfg.prefix, cfg.indent))
      [] res.op = "Compact" ->
           Called(res.op, nil, TRUE, Compact(ZeroScanner, cfg.dst, input))
      [] res.op = "IndentConfig.Indent" ->
           Called(res.op, nil, TRUE,
                  IndentConfigIndent(ZeroScanner, cfg.conf, cfg.dst, input,
                                     cfg.prefix, cfg.indent))
      [] res.op = "IndentConfig.Compact" ->
           Called(res.op, nil, TRUE,
                  IndentConfigCompact(ZeroScanner, cfg.conf, cfg.dst, input))
      [] res.op = "IndentConfig.IndentStream" ->
           Called(res.op, res.end, res.wok,
                  IndentStream(ZeroScanner, cfg.conf, cfg.dst, res.wok,
                               [data |-> input, end |-> res.end], cfg.prefix,
                               cfg.indent))
      [] res.op = "IndentConfig.CompactStream" ->
           Called(res.op, res.end, res.wok,
                  CompactStream(ZeroScanner, cfg.conf, cfg.dst, res.wok,
                                [data |-> input, end |-> res.end]))
      [] OTHER -> res

\* C35: whatever the last operation left in the instance that the pool holds,
\* newScanner makes of it the initial scanner (transition stateBeginValue,
\* empty parse stack, no error, endTop false, bytes 0), so that Valid, a
\* new Stream and every transcoder give what they give on a new instance:
\* what the last operation returned, after any operations before it, is what
\* it returns on a new instance.
C35_FreshScanner ==
    /\ newScanner(scan) = InitialScanner
    /\ Valid(scan, input) = Valid(ZeroScanner, input)
    /\ \A chunk \in 1..MaxChunk :
           NewStream(scan, cfg.conf, chunk, EOFError)
               = NewStream(ZeroScanner, cfg.conf, chunk, EOFError)
    /\ res = OnNewInstance

\* The pool holds an instance that an operation left with an error, frames
\* in its parse stack and bytes counted.
C35_Witness ==
    /\ res.op \in BufferOps \cup StreamOps
    /\ scan.err # nil
    /\ scan.parseState # <<>>
    /\ scan.bytes > 0
    /\ scan.step = "stateError"
    /\ newScanner(scan) = InitialScanner

(***************************************************************************)
(* Keys.                                                                   *)
(***************************************************************************)

\* What the scanner makes of the bytes of src from place i on, s being the
\* scanner before: for every byte taken, its place and what Step returned.
RECURSIVE ScanSteps(_, _, _)
ScanSteps(s, src, i) ==
    IF i > Len(src) THEN {}
    ELSE The({{[i |-> i, scan |-> o.scan, ret |-> o.ret]}
                  \cup (IF o.ret = ScanError THEN {}
                        ELSE ScanSteps(o.scan, src, i + 1)) :
              o \in {ScannerStep(s, src[i])}})

ConfigOps ==
    {"IndentConfig.Indent", "IndentConfig.Compact",
     "IndentConfig.IndentStream", "IndentConfig.CompactStream"}

\* The place after the reset that closes the colour selected at place j of
\* s, or 0 when no escape sequence follows.
AfterReset(s, j) ==
    IF \E r \in (j + 1)..Len(s) : s[r] = ESC
    THEN (CHOOSE r \in (j + 1)..Len(s) :
              s[r] = ESC /\ \A n \in (j + 1)..(r - 1) : s[n] # ESC)
             + Len(TermReset)
    ELSE 0

\* The token in colour from place j of s is followed by a colon in the
\* colour punct: it is a key.
BeforeColon(s, j, punct) ==
    \E a \in {AfterReset(s, j)} :
        /\ a > 0
        /\ a + Len(punct) <= Len(s)
        /\ SubSeq(s, a, a + Len(punct)) = Append(punct, ":")

\* C31: the scanner returns ScanBeginLiteral in the frame ParseObjectKey for
\* the byte " only, and with the colours of DefaultIndentConfig the
\* transcoders write every key after the escape sequence of the Keyword
\* colour, never after that of the String colour: the token before a colon
\* is in the Keyword colour and begins with ", and in a valid document every
\* token in the Keyword colour is followed by a colon.
C31_Keys ==
    /\ \A t \in ScanSteps(newScanner(scan), input, 1) :
           (t.ret = ScanBeginLiteral
               /\ CurrentParseState(t.scan) = ParseObjectKey) =>
               input[t.i] = "\""
    /\ (res.op \in ConfigOps /\ cfg.conf = DefaultIndentConfig) =>
           \A out \in {Output} :
               \A j \in 1..Len(out) :
                   (out[j] = ESC /\ EscapeAt(out, j) # TermReset) =>
                       /\ BeforeColon(out, j, cfg.conf.Punctuation) =>
                              /\ EscapeAt(out, j) = cfg.conf.Keyword
                              /\ out[j + Len(cfg.conf.Keyword)] = "\""
                       /\ EscapeAt(out, j) = cfg.conf.String =>
                              ~BeforeColon(out, j, cfg.conf.Punctuation)
                       /\ (EscapeAt(out, j) = cfg.conf.Keyword
                              /\ res.err = nil
                              /\ JDocWithin(input, maxNestingDepth)) =>
                              BeforeColon(out, j, cfg.conf.Punctuation)

\* An object with a key whose value is an array that holds a string: the key
\* is written in the Keyword colour, the string in the String colour.
C31_Witness ==
    /\ res.op \in ConfigOps
    /\ cfg.conf = DefaultIndentConfig
    /\ res.err = nil
    /\ input = <<"{", "\"", "k", "\"", ":", "[", "n", "u", "l", "l", ",", "\"",
                 "x", "\"", "]", "}">>
    /\ \E out \in {Output} :
         /\ \E j \in 1..Len(out) :
              /\ out[j] = ESC
              /\ EscapeAt(out, j) = cfg.conf.Keyword
              /\ SubSeq(out, j + Len(cfg.conf.Keyword),
                        j + Len(cfg.conf.Keyword) + 2) = <<"\"", "k", "\"">>
              /\ BeforeColon(out, j, cfg.conf.Punctuation)
         /\ \E j \in 1..Len(out) :
              /\ out[j] = ESC
              /\ EscapeAt(out, j) = cfg.conf.String
              /\ SubSeq(out, j + Len(cfg.conf.String),
                        j + Len(cfg.conf.String) + 2) = <<"\"", "x", "\"">>

(***************************************************************************)
(* The counter of bytes of the scanner of a Stream.                        *)
(***************************************************************************)

\* The last call on the Stream was a Next that returned a value.
NextSucceeded == res.op = "none" /\ outs # <<>> /\ outs[Len(outs)].err = nil

\* The errors of Next that are not syntax errors.
StreamErrors == {EOFError, ErrUnexpectedEOF, ReadError}

\* The k-th call of Next returned a syntax error.
SyntaxErrorAt(k) == outs[k].err \notin {nil} \cup StreamErrors

\* C33: after every Next that returned a value the scanner's bytes counter
\* is scanned + scanp, the number of bytes of the source consumed by the
\* values returned; and the Offset of a syntax error that Next returns is
\* the place in the whole source of the offending byte: the first byte at
\* which what follows the values returned before is no beginning of a JSON
\* value.
C33_AbsoluteOffset ==
    /\ NextSucceeded =>
           /\ strm.scan.bytes = strm.scanned + strm.scanp
           /\ strm.scan.bytes = outs[Len(outs)].from + Len(outs[Len(outs)].val)
    /\ \A k \in 1..Len(outs) :
           SyntaxErrorAt(k) =>
               \E p \in {outs[k].err.Offset} :
                   /\ p \in (outs[k].from + 1)..Len(input)
                   /\ ~JPrefixWithin(SubSeq(input, outs[k].from + 1, p),
                                     maxNestingDepth)
                   /\ JPrefixWithin(SubSeq(input, outs[k].from + 1, p - 1),
                                    maxNestingDepth)

\* After a value and a refill that slid the buffer, a syntax error was
\* returned for a byte that is not the first after the value.
C33_Witness ==
    /\ res.op = "none"
    /\ Len(outs) >= 2
    /\ outs[Len(outs) - 1].err = nil
    /\ SyntaxErrorAt(Len(outs))
    /\ strm.scanned > 0
    /\ outs[Len(outs)].from > 0
    /\ outs[Len(outs)].err.Offset > outs[Len(outs)].from + 1
    /\ outs[Len(outs)].err.Offset = strm.scan.bytes

\* The states of readValue's loop between its rounds, from w on.
RECURSIVE readValueStates(_, _)
readValueStates(w, source) ==
    IF w.done THEN {w}
    ELSE {w} \cup The({readValueStates(n, source) :
                      n \in {readValueStep(w, source)}})

\* readValue at its beginning, on the Stream dec.
readValueStart(dec) ==
    [dec |-> [dec EXCEPT !.scan = ScannerReset(@)], scanp |-> dec.scanp,
     err |-> nil, ret |-> nil, done |-> FALSE]

\* C32 as stated: the bytes counter never goes down while readValue drives
\* the scanner: after the switch on what the scanner made of a byte the
\* counter is not below what it was when the scanner took the byte.
C32_AsStated ==
    strm.err = nil =>
        \A w \in readValueStates(readValueStart(strm), input) :
            (~w.done /\ w.scanp < Len(w.dec.buf)) =>
                \A o \in {step([w.dec.scan EXCEPT !.bytes = @ + 1],
                               w.dec.buf[w.scanp + 1])} :
                    readValueIter(w, o).dec.scan.bytes >= o.scan.bytes

\* C32, amended: the bytes counter of the scanner of a Stream never goes down
\* from one call to the next, nor from one round of readValue's loop to the
\* next: a call of Next or of Stream.Indent leaves it at least what it was,
\* readValue counts a byte before it gives it to the scanner and takes that
\* one count back for the byte that told the end of a value one byte late,
\* Step raises it by one, and Reset and EOF leave it alone.
C32_Monotone ==
    [][/\ strm'.scan.bytes >= strm.scan.bytes
       /\ strm.err = nil =>
              \A w \in readValueStates(readValueStart(strm), input) :
                  /\ w.dec.scan.bytes >= strm.scan.bytes
                  /\ ~w.done =>
                         \E n \in {readValueStep(w, input)} :
                             /\ n.dec.scan.bytes >= w.dec.scan.bytes
                             /\ n.dec.scan.bytes
                                    <= w.dec.scan.bytes + 1
       /\ \A c \in StreamAlphabet :
              ScannerStep(strm.scan, c).scan.bytes = strm.scan.bytes + 1
       /\ ScannerReset(strm.scan).bytes = strm.scan.bytes
       /\ ScannerEOF(strm.scan).scan.bytes = strm.scan.bytes]_vars

\* A second value was returned whose end the scanner told one byte late, on
\* a byte that stays in the buffer: its count was taken back.
C32_Witness ==
    /\ NextSucceeded
    /\ Len(outs) >= 2
    /\ strm.scan.endTop
    /\ strm.scanp < Len(strm.buf)
    /\ strm.scan.bytes = strm.scanned + strm.scanp
    /\ strm.scan.bytes >= 3
    /\ outs[Len(outs)].val[Len(outs[Len(outs)].val)] \notin {"]", "}"}

(***************************************************************************)
(* C37, as stated.  Stream.Indent over a source of well-formed values does *)
(* not panic, however many values the source holds.                        *)
(***************************************************************************)
C37_AsStated ==
    (res.op = "Stream.Indent" /\ JValues(input).ok) => res.err # Panic

(***************************************************************************)
(* The reads of a Stream.                                                  *)
(***************************************************************************)

\* What k calls of Next return, one after the other, from the Stream dec on.
RECURSIVE NextRuns(_, _, _, _)
NextRuns(dec, source, pooled, k) ==
    IF k = 0 THEN <<>>
    ELSE The({<<[from |-> x.from, val |-> x.val, out |-> x.out,
                 array |-> x.array, err |-> x.err]>>
                  \o NextRuns(x.dec, source, x.pool, k - 1) :
              x \in {StreamNext(dec, source, pooled)}})

\* A Stream like strm at its beginning, on a reader that hands out the whole
\* source, and its error with it, at the first Read.
AtOnce ==
    [NewStream(ZeroScanner, strm.conf, Len(input) + 1, strm.rd.end)
        EXCEPT !.prefix = strm.prefix,
               !.indent = strm.indent,
               !.rd.together = TRUE]

\* C38: what the calls of Next returned, values and then the error, is what
\* they return when the source is read at once, whatever the reader hands
\* out at a Read (one byte, two, the last bytes with or without the error):
\* the results depend on the bytes of the source only.
C38_ReadsDoNotMatter ==
    res.op = "none" => outs = NextRuns(AtOnce, input, ZeroScanner, Len(outs))

\* Two values and the end of the source, read one byte at a time, the last
\* byte handed out with io.EOF, with refills that slid the buffer.
C38_Witness ==
    /\ res.op = "none"
    /\ Len(outs) = 3
    /\ outs[2].err = nil
    /\ outs[3].err = EOFError
    /\ strm.rd.chunk = 1
    /\ strm.rd.together
    /\ strm.scanned > 0
    /\ outs[2].from > 0
    /\ Len(outs[2].val) >= 2

====
